---- MODULE Spec2Model ----
(***************************************************************************)
(* Model of the api package of homemade/justin: the call transport Do and  *)
(* the batch dispatcher DoBatch (src/models/account.go lines 153-221 hold  *)
(* the current api/requests.go).                                           *)
(*                                                                         *)
(* One behaviour is one invocation: either a direct call Do(client, ...,   *)
(* reqs[0], reqBodies[0], logger) or DoBatch(client, ..., reqs, reqBodies, *)
(* logger).  Frame 0 is the Do invocation of a direct call; frame u >= 1   *)
(* is the goroutine launched by the u-th iteration of the launch loop and  *)
(* the Do invocation it makes.  Wall-clock time (start, TimeTaken) is not  *)
(* modelled.                                                               *)
(*                                                                         *)
(* ApiSpec adds the callers' BuildBody and BuildRequest calls and the      *)
(* template registry of src/api/templates.go; ServiceSpec models one       *)
(* invocation of a Service method of src/unnamed/part_001.                 *)
(***************************************************************************)
EXTENDS Integers, Sequences, FiniteSets, TLC

\* largest number of requests in a batch
MaxN == 2

VARIABLES
    mode,             \* "Do" or "DoBatch": the entry point invoked
    reqs,             \* argument reqs   (function on 0..len-1)
    reqBodies,        \* argument reqBodies (function on 0..len-1)
    originID,         \* argument originID
    calleeID,         \* argument calleeID
    logger,           \* argument logger: nil or the Logger
    pc,               \* position of the calling goroutine
    i,                \* loop variable of DoBatch
    z,                \* len(reqs)
    resps,            \* result slice resps
    readBodies,       \* result slice readBodies
    errs,             \* result slice errs
    batchedRequests,  \* the buffered channel: [buf, cap, closed]
    wg,               \* the sync.WaitGroup: [counter, panicked]
    fr,               \* per frame: goroutine position and locals of Do
    logs,             \* Call records received by the logger, in order, each
                      \* tagged with the frame that emitted it
    hist,             \* history: writers of each slot, barrier events
    RequestTemplates, \* the package's template registry (a Go map)
    built,            \* the last BuildBody or BuildRequest call of the caller:
                      \* its arguments and what it returned
    svc,              \* one invocation of a Service method: its arguments,
                      \* position, the api.Do calls it made and its results
    date,             \* one call of ParseDate: its argument and its results
    pair              \* two DoBatch invocations running at once: the
                      \* objects they made and the locals of each

vars == <<mode, reqs, reqBodies, originID, calleeID, logger, pc, i, z,
          resps, readBodies, errs, batchedRequests, wg, fr, logs, hist,
          RequestTemplates, built, svc, date, pair>>

Frames == 0..MaxN
Units  == 1..MaxN

----------------------------------------------------------------------------
(* Values *)

nil == [kind |-> "nil"]

\* the i-th distinct *http.Request a caller can build
NewRequest(k) == [kind |-> "request", Method |-> "GET", URL |-> "/" \o ToString(k)]

\* error values returned by the http client and by ioutil.ReadAll
ConnErr     == [kind |-> "error", msg |-> "dial tcp: connection refused"]
RedirectErr == [kind |-> "error", msg |-> "stopped after 10 redirects"]
ReadErr     == [kind |-> "error", msg |-> "unexpected EOF"]

\* text of the body the server sends for a request, and a proper prefix of it
BodyText(req)    == "body of " \o req.URL
PartialText(req) == "body"

\* the response the client returns for req with a nil error
OKResponse(req) ==
    [kind |-> "response", Status |-> "200 OK", Request |-> req, Body |-> BodyText(req)]

\* the response the client returns together with an error when the redirect
\* policy fails (net/http returns both; the body is already closed)
RedirectResponse(req) ==
    [kind |-> "response", Status |-> "302 Found", Request |-> req, Body |-> ""]

\* outcomes of client.Do(req): <<res, err>>
ClientOutcomes(req) ==
    { <<OKResponse(req), nil>>,
      <<nil, ConnErr>>,
      <<RedirectResponse(req), RedirectErr>> }

\* outcomes of ioutil.ReadAll(res.Body): <<string(buffer), err>>
ReadOutcomes(res) ==
    { <<res.Body, nil>>,
      <<PartialText(res.Request), ReadErr>>,
      <<"", ReadErr>> }

\* mutant: a nil value is rendered as the empty string
SprintfNilEmpty(v) ==
    CASE v.kind = "nil"      -> ""
      [] v.kind = "request"  -> "&{" \o v.Method \o " " \o v.URL \o "}"
      [] v.kind = "response" -> "&{" \o v.Status \o "}"
      [] v.kind = "error"    -> v.msg

\* fmt.Sprintf("%v", v) for a *http.Request, *http.Response or error
Sprintf(v) ==
    CASE v.kind = "nil"      -> "<nil>"
      [] v.kind = "request"  -> "&{" \o v.Method \o " " \o v.URL \o "}"
      [] v.kind = "response" -> "&{" \o v.Status \o "}"
      [] v.kind = "error"    -> v.msg

\* mutant: the request body and the response body change places
CallBodiesSwapped(oid, cid, req, reqBody, res, readBody, err) ==
    [OriginID |-> oid, CalleeID |-> cid, Req |-> Sprintf(req), ReqBody |-> readBody,
     Res |-> Sprintf(res), ResBody |-> reqBody, Err |-> Sprintf(err)]

\* mutant: the response field is rendered from the request
CallResFromReq(oid, cid, req, reqBody, res, readBody, err) ==
    [OriginID |-> oid, CalleeID |-> cid, Req |-> Sprintf(req), ReqBody |-> reqBody,
     Res |-> Sprintf(req), ResBody |-> readBody, Err |-> Sprintf(err)]

\* the Call record built at both logging sites of Do
Call(oid, cid, req, reqBody, res, readBody, err) ==
    [OriginID |-> oid, CalleeID |-> cid, Req |-> Sprintf(req), ReqBody |-> reqBody,
     Res |-> Sprintf(res), ResBody |-> readBody, Err |-> Sprintf(err)]

\* zero value of batchedRequest, received from a closed, drained channel
ZeroBatchedRequest == [Sequence |-> 0, Request |-> nil, ReqBody |-> ""]

batchedRequest(seq, req, body) == [Sequence |-> seq, Request |-> req, ReqBody |-> body]

----------------------------------------------------------------------------
(* Request templates: src/api/templates.go, BuildBody and BuildRequest      *)
(* (src/models/account.go 115-150).  A text is a sequence of characters; a  *)
(* template source is a sequence of tokens: literal characters, actions     *)
(* {{.Field}} and, for a malformed source, an action left open.             *)

Lit(c)   == [k |-> "lit", v |-> c]
Field(n) == [k |-> "field", v |-> n]
Unclosed == [k |-> "unclosed", v |-> ""]

Q == "\""

\* "name": as template tokens
Key(n) == <<Lit(Q), Lit(n), Lit(Q), Lit(":"), Lit(" ")>>

\* "{{.F}}" between quotes, as template tokens
Quoted(f) == <<Lit(Q), Field(f), Lit(Q)>>

\* templates.go lines 50-53
validateTmpl ==
    <<Lit("{"), Lit(" ")>> \o Key("email") \o Quoted("Email") \o <<Lit(","), Lit(" ")>>
    \o Key("password") \o Quoted("Password") \o <<Lit(" "), Lit("}")>>

\* templates.go lines 7-24, abridged: one constant member, the nested address
\* object with one of its six members, a null member and one of the five
\* quoted members that follow; the members left out have these shapes
accountRegistrationTmpl ==
    <<Lit("{"), Lit(" ")>> \o Key("acceptTermsAndConditions") \o <<Lit("true"), Lit(","), Lit(" ")>>
    \o Key("address") \o <<Lit("{"), Lit(" ")>> \o Key("country") \o Quoted("Country")
    \o <<Lit(" "), Lit("}"), Lit(","), Lit(" ")>>
    \o Key("causeId") \o <<Lit("null"), Lit(","), Lit(" ")>>
    \o Key("email") \o Quoted("PlainEmail") \o <<Lit(" "), Lit("}")>>

\* templates.go lines 26-48, abridged: an unquoted member, a quoted member
\* and the closing currency member; the customCodes object and the
\* conditional images and teamId members are left out
registerFundraisingPageForEventTmpl ==
    <<Lit("{"), Lit(" ")>> \o Key("charityId") \o <<Field("CharityID"), Lit(","), Lit(" ")>>
    \o Key("pageShortName") \o Quoted("PageShortName") \o <<Lit(","), Lit(" ")>>
    \o Key("currency") \o Quoted("CurrencyCode") \o <<Lit(" "), Lit("}")>>

\* a template source with an action that is never closed
malformedTmpl == <<Lit("{"), Lit(" ")>> \o Key("email") \o <<Lit(Q), Unclosed>>

ParseErr == [kind |-> "error", msg |-> "template: unclosed action"]

\* template.New(name).Parse(text): <<t, err>>; t is nil when parsing fails
Parse(name, text) ==
    IF \E j \in 1..Len(text) : text[j].k = "unclosed"
    THEN <<nil, ParseErr>>
    ELSE <<[kind |-> "template", name |-> name, tree |-> text], nil>>

\* a RequestTemplate value, and its zero value (what a map yields for a key
\* it does not hold)
RequestTemplate(parsed) == [t |-> parsed[1], err |-> parsed[2]]
ZeroRequestTemplate     == [t |-> nil, err |-> nil]

\* the template sources compiled at package initialisation
Sources ==
    [Validate |-> validateTmpl,
     AccountRegistration |-> accountRegistrationTmpl,
     RegisterFundraisingPageForEvent |-> registerFundraisingPageForEventTmpl]

\* templates.go init(), for the given sources: the registry as a Go map
init(src) ==
    [Validate |->
        RequestTemplate(Parse("validateTmpl", src.Validate)),
     AccountRegistration |->
        RequestTemplate(Parse("accountRegistrationTmpl", src.AccountRegistration)),
     RegisterFundraisingPageForEvent |->
        RequestTemplate(Parse("registerFundraisingPageForEventTmpl",
                              src.RegisterFundraisingPageForEvent))]

\* m[key] of a Go map: the entry, or the zero value for an absent key
MapIndex(m, key) == IF key \in DOMAIN m THEN m[key] ELSE ZeroRequestTemplate

\* fmt.Errorf(format, args...): the format and the values it is filled with
Errorf(format, args) == [kind |-> "error", msg |-> format, args |-> args]

\* t.Execute(&result, data): <<text written, err>>; a field the data does not
\* have stops the execution with an error
RECURSIVE ExecuteFrom(_, _, _, _)
ExecuteFrom(tree, j, data, out) ==
    IF j > Len(tree) THEN <<out, nil>>
    ELSE IF tree[j].k = "lit" THEN ExecuteFrom(tree, j + 1, data, Append(out, tree[j].v))
    ELSE IF tree[j].v \in DOMAIN data
         THEN ExecuteFrom(tree, j + 1, data, out \o data[tree[j].v])
         ELSE <<out, [kind |-> "error", msg |-> "can't evaluate field " \o tree[j].v]>>

Execute(t, data) == ExecuteFrom(t.tree, 1, data, <<>>)

\* the JSON scanner behind json.Compact, for objects, strings and the
\* literals below: the state after reading character c in state st at
\* nesting depth d
Atoms == {"true", "null", "7"}

ScanStep(st, d, c) ==
    CASE st = "value" ->
           IF c = " " THEN [st |-> "value", d |-> d]
           ELSE IF c = Q THEN [st |-> "str", d |-> d]
           ELSE IF c = "{" THEN [st |-> "key0", d |-> d + 1]
           ELSE IF c \in Atoms THEN [st |-> "after", d |-> d]
           ELSE [st |-> "error", d |-> d]
      [] st = "key0" ->
           IF c = " " THEN [st |-> "key0", d |-> d]
           ELSE IF c = Q THEN [st |-> "keystr", d |-> d]
           ELSE IF c = "}" THEN [st |-> "after", d |-> d - 1]
           ELSE [st |-> "error", d |-> d]
      [] st = "key" ->
           IF c = " " THEN [st |-> "key", d |-> d]
           ELSE IF c = Q THEN [st |-> "keystr", d |-> d]
           ELSE [st |-> "error", d |-> d]
      [] st = "keystr" ->
           IF c = Q THEN [st |-> "colon", d |-> d] ELSE [st |-> "keystr", d |-> d]
      [] st = "colon" ->
           IF c = " " THEN [st |-> "colon", d |-> d]
           ELSE IF c = ":" THEN [st |-> "value", d |-> d]
           ELSE [st |-> "error", d |-> d]
      [] st = "str" ->
           IF c = Q THEN [st |-> "after", d |-> d] ELSE [st |-> "str", d |-> d]
      [] st = "after" ->
           IF c = " " THEN [st |-> "after", d |-> d]
           ELSE IF c = "," /\ d > 0 THEN [st |-> "key", d |-> d]
           ELSE IF c = "}" /\ d > 0 THEN [st |-> "after", d |-> d - 1]
           ELSE [st |-> "error", d |-> d]

SyntaxErr(what) == [kind |-> "error", msg |-> what]

\* json.Compact(&dst, src): <<dst, err>>; white space outside strings is
\* dropped, everything else is copied; on a syntax error dst is left empty
RECURSIVE CompactFrom(_, _, _, _, _)
CompactFrom(src, j, st, d, dst) ==
    IF j > Len(src)
    THEN IF st = "after" /\ d = 0
         THEN <<dst, nil>>
         ELSE <<<<>>, SyntaxErr("unexpected end of JSON input")>>
    ELSE LET n == ScanStep(st, d, src[j]) IN
         IF n.st = "error"
         THEN <<<<>>, SyntaxErr("invalid character " \o src[j])>>
         ELSE CompactFrom(src, j + 1, n.st, n.d,
                          IF src[j] = " " /\ st \notin {"str", "keystr"}
                          THEN dst ELSE Append(dst, src[j]))

Compact(src) == CompactFrom(src, 1, "value", 0, <<>>)

\* a *bytes.Buffer holding text, as the io.Reader BuildBody returns
Buffer(text) == [kind |-> "reader", content |-> text]

\* mutant: every content type that starts as JSON is compacted
IsJSONLoosely(contentType) ==
    contentType \in {"application/json", "application/json; charset=utf-8"}

\* line 128: contentType == "application/json"
IsJSON(contentType) == contentType = "application/json"

\* mutant: the missing template is tested for before the stored error
BuildBodyNilFirst(m, templateName, data, contentType) ==
    LET rt == MapIndex(m, templateName) IN
    IF rt.t = nil
    THEN <<<<>>, nil, Errorf("template %s not found", <<templateName>>)>>
    ELSE IF rt.err # nil
    THEN <<<<>>, nil, Errorf("error initialising template %s, %v", <<templateName, rt.err>>)>>
    ELSE LET result == Execute(rt.t, data) IN
         IF result[2] # nil
         THEN <<<<>>, nil, Errorf("error executing template %s, %v", <<templateName, result[2]>>)>>
         ELSE IF IsJSON(contentType)
         THEN LET jsonResult == Compact(result[1]) IN
              IF jsonResult[2] # nil
              THEN <<<<>>, nil,
                     Errorf("error in json request body generated from template %s, %s, %v",
                            <<templateName, result[1], jsonResult[2]>>)>>
              ELSE <<jsonResult[1], Buffer(jsonResult[1]), nil>>
         ELSE <<result[1], Buffer(result[1]), nil>>

\* BuildBody(templateName, data, contentType) with the registry m:
\* <<text, reader, err>>
BuildBody(m, templateName, data, contentType) ==
    LET rt == MapIndex(m, templateName) IN
    IF rt.err # nil
    THEN <<<<>>, nil, Errorf("error initialising template %s, %v", <<templateName, rt.err>>)>>
    ELSE IF rt.t = nil
    THEN <<<<>>, nil, Errorf("template %s not found", <<templateName>>)>>
    ELSE LET result == Execute(rt.t, data) IN
         IF result[2] # nil
         THEN <<<<>>, nil, Errorf("error executing template %s, %v", <<templateName, result[2]>>)>>
         ELSE IF IsJSON(contentType)
         THEN LET jsonResult == Compact(result[1]) IN
              IF jsonResult[2] # nil
              THEN <<<<>>, nil,
                     Errorf("error in json request body generated from template %s, %s, %v",
                            <<templateName, result[1], jsonResult[2]>>)>>
              ELSE <<jsonResult[1], Buffer(jsonResult[1]), nil>>
         ELSE <<result[1], Buffer(result[1]), nil>>

\* methods http.NewRequest rejects, among those a caller passes
InvalidMethods == {"BAD METHOD"}

\* an address is the sequence of the pieces it was written from; url.Parse
\* rejects it when a piece holds a malformed percent escape
BadEscapes == {"%zz"}
Unparsable(url) == \E j \in 1..Len(url) : url[j] \in BadEscapes

\* http.NewRequest(method, url, body): <<req, err>>; an empty method means GET
HTTPNewRequest(method, url, body) ==
    LET m == IF method = "" THEN "GET" ELSE method IN
    IF m \in InvalidMethods
    THEN <<nil, [kind |-> "error", msg |-> "net/http: invalid method " \o m]>>
    ELSE IF Unparsable(url)
    THEN <<nil, [kind |-> "error", msg |-> "parse: invalid URL escape", url |-> url]>>
    ELSE <<[kind |-> "request", Method |-> m, URL |-> url,
            Header |-> <<>>, Body |-> body], nil>>

\* req.Header.Set(key, value): the values of key are replaced by value
HeaderSet(req, key, value) ==
    [req EXCEPT !.Header =
        [h \in DOMAIN req.Header \cup {key} |-> IF h = key THEN <<value>> ELSE req.Header[h]]]

\* mutant: the content type header is always the JSON one
BuildRequestJSONOnly(userAgent, contentType, method, reqPath, reqBody) ==
    LET r == HTTPNewRequest(method, reqPath, reqBody) IN
    IF r[2] # nil
    THEN <<nil, Errorf("error building request %v", <<r[2]>>)>>
    ELSE <<HeaderSet(HeaderSet(r[1], "User-Agent", userAgent), "Content-Type", "application/json"),
           nil>>

\* BuildRequest(userAgent, contentType, method, reqPath, reqBody): <<req, err>>
BuildRequest(userAgent, contentType, method, reqPath, reqBody) ==
    LET r == HTTPNewRequest(method, reqPath, reqBody) IN
    IF r[2] # nil
    THEN <<nil, Errorf("error building request %v", <<r[2]>>)>>
    ELSE <<HeaderSet(HeaderSet(r[1], "User-Agent", userAgent), "Content-Type", contentType),
           nil>>

----------------------------------------------------------------------------
(* Inputs *)

TheLogger == [kind |-> "logger"]

\* n distinct requests, and one request repeated n times
DistinctReqs(n) == [k \in 0..n-1 |-> NewRequest(k)]
RepeatedReqs(n) == [k \in 0..n-1 |-> NewRequest(0)]

\* n distinct body texts, and n empty bodies (as passed for GET requests)
DistinctBodies(n) == [k \in 0..n-1 |-> "{" \o ToString(k) \o "}"]
EmptyBodies(n)    == [k \in 0..n-1 |-> ""]

\* the argument pairs <<reqs, reqBodies>> for n requests: bodies matching the
\* requests, one body too many, one body too few
Arguments(n) ==
    { <<DistinctReqs(n), DistinctBodies(n)>>,
      <<RepeatedReqs(n), EmptyBodies(n)>>,
      <<DistinctReqs(n), DistinctBodies(n + 1)>> }
    \cup (IF n > 0 THEN { <<DistinctReqs(n), DistinctBodies(n - 1)>> } ELSE {})

LenOf(f) == Cardinality(DOMAIN f)

IdleFrame ==
    \* id: the frame's number; clientRes, clientErr: what client.Do returned;
    \* readErr, readBuf: the error and the bytes ReadAll returned; the counters
    \* record how often the frame did each thing
    [id |-> 0, pc |-> "idle", batchedReq |-> ZeroBatchedRequest,
     req |-> nil, reqBody |-> "",
     res |-> nil, readBody |-> "", err |-> nil,
     deferred |-> FALSE, clientRes |-> nil, clientErr |-> nil, readErr |-> nil,
     readBuf |-> "",
     clientCalls |-> 0, reads |-> 0, closes |-> 0, logCalls |-> 0,
     returns |-> 0, dones |-> 0]

\* history kept for the properties: the goroutines that wrote each slot (in
\* the order of their writes), the values the WaitGroup counter took from
\* wg.Add on, the number of times wg.Wait released the caller
NoHist == [writers |-> <<>>, counter |-> <<>>, released |-> 0]

\* data passed to BuildBody: every field the templates use; the same with a
\* double quote inside three of the values; a value with a single field
GoodData ==
    [Email |-> <<"a@b">>, Password |-> <<"p", " ", "w">>, Country |-> <<"UK">>,
     PlainEmail |-> <<"a@b">>, CharityID |-> <<"7">>, PageShortName |-> <<"run">>,
     CurrencyCode |-> <<"GBP">>]
QuoteData ==
    [GoodData EXCEPT !.Password = <<"p", Q, "w">>, !.Country = <<"U", Q, "K">>,
                     !.PageShortName = <<"r", Q, "n">>]
PartialData == [Email |-> <<"a@b">>]

TemplateNames == {"Validate", "AccountRegistration", "RegisterFundraisingPageForEvent", "Unknown"}
DataValues    == {GoodData, QuoteData, PartialData}
ContentTypes  == {"application/json", "application/json; charset=utf-8"}
Methods       == {"POST", "", "BAD METHOD"}
ReqPaths      == {<<"https://api", "/v1/account/", "a@b">>, <<"https://api", "/v1/account/", "%zz">>}
ReqBodyReaders == {Buffer(<<"{", "}">>)}

\* the caller has built nothing yet
NotBuilt == [op |-> "none"]

\* no Service method is running
NoService == [op |-> "none", pc |-> "idle"]
NoDate    == [pc |-> "idle"]
NoPair    == [pc |-> "idle"]

\* the registries package initialisation can produce: from the sources of
\* templates.go, and from sources of which one does not compile
Registries ==
    { init(Sources), init([Sources EXCEPT !.Validate = malformedTmpl]) }

InitTransport ==
    /\ mode \in {"Do", "DoBatch"}
    /\ \E n \in 0..MaxN : \E a \in Arguments(n) :
         /\ mode = "Do" => n = 1 /\ LenOf(a[2]) = 1
         /\ reqs = a[1]
         /\ reqBodies = a[2]
    /\ originID \in {"trace-1"}
    /\ calleeID \in {"Validate"}
    /\ logger \in {nil, TheLogger}
    /\ pc = "start"
    /\ i = 0
    /\ z = 0
    /\ resps = <<>>
    /\ readBodies = <<>>
    /\ errs = <<>>
    /\ batchedRequests = [buf |-> <<>>, cap |-> 0, closed |-> FALSE]
    /\ wg = [counter |-> 0, panicked |-> FALSE]
    /\ fr = [f \in Frames |-> [IdleFrame EXCEPT !.id = f]]
    /\ logs = <<>>
    /\ hist = NoHist

\* the state when the caller invokes Do or DoBatch: package initialisation
\* has run
Init ==
    /\ InitTransport
    /\ RequestTemplates = init(Sources)
    /\ built = NotBuilt
    /\ svc = NoService
    /\ date = NoDate
    /\ pair = NoPair

\* what Do and DoBatch never touch: the template registry and the locals of
\* their callers
beside == <<RequestTemplates, built, svc, date, pair>>

inputs == <<mode, reqs, reqBodies, originID, calleeID, logger>>
results == <<resps, readBodies, errs>>


----------------------------------------------------------------------------
\* a panic ends the process: no goroutine takes another step
Running == pc # "panicked" /\ ~wg.panicked

----------------------------------------------------------------------------
(* Do: src/models/account.go 153-179 *)

\* line 160 and line 175: logger.Log(Call{...}) with the frame's current locals
LogRecord(f) ==
    Call(originID, calleeID, f.req, f.reqBody, f.res, f.readBody, f.err)

\* mutant: Do stamps the request with a header before sending it
EnterDoTagsRequest(f, req, reqBody) ==
    [f EXCEPT !.req = IF req = nil THEN nil ELSE [req EXCEPT !.URL = @ \o "?tagged"],
              !.reqBody = reqBody, !.readBody = "",
              !.pc = "client", !.clientCalls = @ + 1]

\* Do is entered with (req, reqBody): readBody = "" and client.Do(req) is called
EnterDo(f, req, reqBody) ==
    [f EXCEPT !.req = req, !.reqBody = reqBody, !.readBody = "",
              !.pc = "client", !.clientCalls = @ + 1]

\* mutant: the body is closed only after a successful read, not by a defer
DeferredCloseOnSuccess(f) ==
    IF f.deferred /\ f.res # nil /\ f.err = nil THEN [f EXCEPT !.closes = @ + 1] ELSE f

\* lines 165-169: the deferred closure closes the body of a non-nil response
DeferredClose(f) ==
    IF f.deferred /\ f.res # nil THEN [f EXCEPT !.closes = @ + 1] ELSE f

\* mutant: the error is lost on the way out
ReturnFromDoNilErr(f) ==
    [DeferredClose(f) EXCEPT !.returns = @ + 1, !.pc = "returned", !.err = nil]

\* return res, readBody, err: deferred calls run, the results go to the caller
ReturnFromDo(f) ==
    [DeferredClose(f) EXCEPT !.returns = @ + 1, !.pc = "returned"]

\* mutant: only a call without error is logged
LogOrReturnSuccessOnly(f) ==
    IF logger # nil /\ f.err = nil
    THEN /\ logs' = Append(logs, [by |-> f.id, call |-> LogRecord(f)])
         /\ fr' = [fr EXCEPT ![f.id] = [f EXCEPT !.pc = "inLogger", !.logCalls = @ + 1]]
    ELSE /\ logs' = logs
         /\ fr' = [fr EXCEPT ![f.id] = ReturnFromDo(f)]

\* mutant: the record is handed to a goroutine of its own and Do returns
\* without waiting for it
LogOrReturnAsync(f) ==
    /\ logs' = logs
    /\ fr' = [fr EXCEPT ![f.id] = ReturnFromDo(f)]

\* mutant: the logger is entered by one goroutine at a time
LogOrReturnSerialized(f) ==
    IF logger # nil
    THEN /\ \A k \in Frames : fr[k].pc # "inLogger"
         /\ logs' = Append(logs, [by |-> f.id, call |-> LogRecord(f)])
         /\ fr' = [fr EXCEPT ![f.id] = [f EXCEPT !.pc = "inLogger", !.logCalls = @ + 1]]
    ELSE /\ logs' = logs
         /\ fr' = [fr EXCEPT ![f.id] = ReturnFromDo(f)]

\* if logger != nil { logger.Log(...) }: the frame is inside the logger, or,
\* without a logger, goes on to the return statement
LogOrReturn(f) ==
    IF logger # nil
    THEN /\ logs' = Append(logs, [by |-> f.id, call |-> LogRecord(f)])
         /\ fr' = [fr EXCEPT ![f.id] = [f EXCEPT !.pc = "inLogger", !.logCalls = @ + 1]]
    ELSE /\ logs' = logs
         /\ fr' = [fr EXCEPT ![f.id] = ReturnFromDo(f)]

\* mutant: a request whose call failed is sent once more
ClientReturnRetries(k) ==
    /\ Running
    /\ fr[k].pc = "client"
    /\ fr[k].req # nil
    /\ \E o \in ClientOutcomes(fr[k].req) :
         LET f == [fr[k] EXCEPT !.res = o[1], !.err = o[2],
                                !.clientRes = o[1], !.clientErr = o[2]] IN
         IF f.err # nil
         THEN IF f.clientCalls < 2
              THEN /\ fr' = [fr EXCEPT ![k].clientCalls = @ + 1]
                   /\ logs' = logs
              ELSE LogOrReturn(f)
         ELSE /\ fr' = [fr EXCEPT ![k] = [f EXCEPT !.deferred = TRUE,
                                           !.pc = "read", !.reads = @ + 1]]
              /\ logs' = logs
    /\ UNCHANGED <<beside, inputs, pc, i, z, results, batchedRequests, wg, hist>>

\* line 156 returns: res, err = client.Do(req); the error branch logs and
\* returns, otherwise the defer is registered and ReadAll(res.Body) starts
ClientReturn(k) ==
    /\ Running
    /\ fr[k].pc = "client"
    /\ IF fr[k].req = nil
       THEN \* client.Do(nil) dereferences the nil request: the process dies
            /\ pc' = "panicked"
            /\ UNCHANGED <<fr, logs>>
       ELSE /\ \E o \in ClientOutcomes(fr[k].req) :
                 LET f == [fr[k] EXCEPT !.res = o[1], !.err = o[2],
                                        !.clientRes = o[1], !.clientErr = o[2]] IN
                 IF f.err # nil
                 THEN LogOrReturn(f)
                 ELSE /\ fr' = [fr EXCEPT ![k] = [f EXCEPT !.deferred = TRUE,
                                                   !.pc = "read", !.reads = @ + 1]]
                      /\ logs' = logs
            /\ pc' = pc
    /\ UNCHANGED <<beside, inputs, i, z, results, batchedRequests, wg, hist>>

\* mutant: the bytes read are discarded when ReadAll reports an error
StringOfBufferUnlessError(o) == IF o[2] # nil THEN "" ELSE o[1]

\* line 172: readBody = string(buffer), for the outcome o of ReadAll
StringOfBuffer(o) == o[1]

\* lines 171-176: buffer, err = ioutil.ReadAll(res.Body) returns
ReadReturn(k) ==
    /\ Running
    /\ fr[k].pc = "read"
    /\ \E o \in ReadOutcomes(fr[k].res) :
         LogOrReturn([fr[k] EXCEPT !.readBody = StringOfBuffer(o), !.err = o[2],
                                   !.readErr = o[2], !.readBuf = o[1]])
    /\ UNCHANGED <<beside, inputs, pc, i, z, results, batchedRequests, wg, hist>>

\* mutant: the record is emitted a second time before Do returns
LogReturnLogsAgain(k) ==
    /\ Running
    /\ fr[k].pc = "inLogger"
    /\ logs' = Append(logs, [by |-> k, call |-> LogRecord(fr[k])])
    /\ fr' = [fr EXCEPT ![k] = ReturnFromDo([fr[k] EXCEPT !.logCalls = @ + 1])]
    /\ UNCHANGED <<beside, inputs, pc, i, z, results, batchedRequests, wg, hist>>

\* mutant: the logger reports a failure and Do returns it as its error
LogReturnTakesLogErr(k) ==
    /\ Running
    /\ fr[k].pc = "inLogger"
    /\ fr' = [fr EXCEPT ![k] =
           ReturnFromDo([fr[k] EXCEPT !.err = [kind |-> "error", msg |-> "log failed"]])]
    /\ UNCHANGED <<beside, inputs, pc, i, z, results, batchedRequests, wg, logs, hist>>

\* logger.Log returns; Do reaches its return statement
LogReturn(k) ==
    /\ Running
    /\ fr[k].pc = "inLogger"
    /\ fr' = [fr EXCEPT ![k] = ReturnFromDo(fr[k])]
    /\ UNCHANGED <<beside, inputs, pc, i, z, results, batchedRequests, wg, logs, hist>>

\* a caller invokes Do directly with reqs[0] and reqBodies[0]
DoCall ==
    /\ Running
    /\ mode = "Do"
    /\ pc = "start"
    /\ fr' = [fr EXCEPT ![0] = EnterDo(fr[0], reqs[0], reqBodies[0])]
    /\ pc' = "inDo"
    /\ UNCHANGED <<beside, inputs, i, z, results, batchedRequests, wg, logs, hist>>

\* the direct call returns to its caller
DoDone ==
    /\ Running
    /\ mode = "Do"
    /\ pc = "inDo"
    /\ fr[0].pc = "returned"
    /\ pc' = "returned"
    /\ UNCHANGED <<beside, inputs, i, z, results, batchedRequests, wg, fr, logs, hist>>


----------------------------------------------------------------------------
(* DoBatch: src/models/account.go 188-221 *)

\* make([]T, n): n zero values
Make(n, zero) == [k \in 0..n-1 |-> zero]

\* mutant: the channel is made without a buffer
ChanCapUnbuffered(n) == 0

\* line 197: make(chan batchedRequest, z), a buffer of z items
ChanCap(n) == n

\* lines 189-197: z, the three result slices and the buffered channel
DoBatchEnter ==
    /\ Running
    /\ mode = "DoBatch"
    /\ pc = "start"
    /\ z' = LenOf(reqs)
    /\ resps' = Make(LenOf(reqs), nil)
    /\ readBodies' = Make(LenOf(reqs), "")
    /\ errs' = Make(LenOf(reqs), nil)
    /\ batchedRequests' = [buf |-> <<>>, cap |-> ChanCap(LenOf(reqs)), closed |-> FALSE]
    /\ i' = 0
    /\ pc' = IF LenOf(reqs) = 0 THEN "close" ELSE "fill"
    /\ hist' = [hist EXCEPT !.writers = Make(LenOf(reqs), <<>>)]
    /\ UNCHANGED <<beside, inputs, wg, fr, logs>>

\* mutant: every work item carries the body text of the first item
WorkItemFirstBody(k) == batchedRequest(k, reqs[k], reqBodies[0])

\* mutant: every work item carries index 0
WorkItemNoIndex(k) == batchedRequest(0, reqs[k], reqBodies[k])

\* the work item built at line 199 for loop index k
WorkItem(k) == batchedRequest(k, reqs[k], reqBodies[k])

\* mutant: a request without a body text is queued with the empty text
SendEmptyBody ==
    /\ Running
    /\ pc = "fill"
    /\ i < z
    /\ Len(batchedRequests.buf) < batchedRequests.cap
    /\ batchedRequests' =
          [batchedRequests EXCEPT !.buf =
              Append(@, IF i \in DOMAIN reqBodies
                        THEN WorkItem(i) ELSE batchedRequest(i, reqs[i], ""))]
    /\ i' = i + 1
    /\ pc' = IF i + 1 < z THEN "fill" ELSE "close"
    /\ UNCHANGED <<beside, inputs, z, results, wg, fr, logs, hist>>

\* lines 198-200: one iteration of the fill loop; reqBodies[i] is an index
\* out of range when reqBodies is shorter than reqs; a send blocks while the
\* buffer is full
Send ==
    /\ Running
    /\ pc = "fill"
    /\ i < z
    /\ IF i \notin DOMAIN reqBodies
       THEN /\ pc' = "panicked"
            /\ UNCHANGED <<i, batchedRequests>>
       ELSE /\ Len(batchedRequests.buf) < batchedRequests.cap
            /\ batchedRequests' = [batchedRequests EXCEPT !.buf = Append(@, WorkItem(i))]
            /\ i' = i + 1
            /\ pc' = IF i + 1 < z THEN "fill" ELSE "close"
    /\ UNCHANGED <<beside, inputs, z, results, wg, fr, logs, hist>>

\* line 202: close(batchedRequests)
Close ==
    /\ Running
    /\ pc = "close"
    /\ batchedRequests' = [batchedRequests EXCEPT !.closed = TRUE]
    /\ pc' = "add"
    /\ UNCHANGED <<beside, inputs, i, z, results, wg, fr, logs, hist>>

\* sync.WaitGroup.Add(delta): a negative counter panics
WaitGroupAdd(w, delta) ==
    IF w.counter + delta < 0
    THEN [w EXCEPT !.panicked = TRUE]
    ELSE [w EXCEPT !.counter = @ + delta]

\* mutant: the counter is set one too high
AddOneMore ==
    /\ Running
    /\ pc = "add"
    /\ wg' = WaitGroupAdd(wg, z + 1)
    /\ hist' = [hist EXCEPT !.counter = Append(@, wg'.counter)]
    /\ i' = 0
    /\ pc' = IF z = 0 THEN "wait" ELSE "launch"
    /\ UNCHANGED <<beside, inputs, z, results, batchedRequests, fr, logs>>

\* lines 205-206: wg.Add(z)
Add ==
    /\ Running
    /\ pc = "add"
    /\ wg' = WaitGroupAdd(wg, z)
    /\ hist' = [hist EXCEPT !.counter = Append(@, wg'.counter)]
    /\ i' = 0
    /\ pc' = IF z = 0 THEN "wait" ELSE "launch"
    /\ UNCHANGED <<beside, inputs, z, results, batchedRequests, fr, logs>>

\* lines 209-216: one iteration of the launch loop starts goroutine i+1
Launch ==
    /\ Running
    /\ pc = "launch"
    /\ i < z
    /\ fr' = [fr EXCEPT ![i + 1].pc = "launched"]
    /\ i' = i + 1
    /\ pc' = IF i + 1 < z THEN "launch" ELSE "wait"
    /\ UNCHANGED <<beside, inputs, z, results, batchedRequests, wg, logs, hist>>

\* mutant: a receive reads the head of the queue without removing it
ReceivePeek(ch) ==
    IF ch.buf # <<>> THEN <<Head(ch.buf), ch.buf>> ELSE <<ZeroBatchedRequest, <<>>>>

\* a receive from the channel: <<value, remaining buffer>>; the zero value
\* when the channel is closed and drained
Receive(ch) ==
    IF ch.buf # <<>> THEN <<Head(ch.buf), Tail(ch.buf)>> ELSE <<ZeroBatchedRequest, <<>>>>

\* mutant: the goroutine calls Do without the item's body text
ProcessDropsBody(u) ==
    /\ Running
    /\ fr[u].pc = "launched"
    /\ batchedRequests.buf # <<>> \/ batchedRequests.closed
    /\ LET r == Receive(batchedRequests) IN
         /\ batchedRequests' = [batchedRequests EXCEPT !.buf = r[2]]
         /\ fr' = [fr EXCEPT ![u] =
                EnterDo([fr[u] EXCEPT !.batchedReq = r[1]], r[1].Request, "")]
    /\ UNCHANGED <<beside, inputs, pc, i, z, results, wg, logs, hist>>

\* lines 213-214: batchedReq := <-batchedRequests, then Do is called with it
\* (a receive blocks while the channel is empty and open)
Process(u) ==
    /\ Running
    /\ fr[u].pc = "launched"
    /\ batchedRequests.buf # <<>> \/ batchedRequests.closed
    /\ LET r == Receive(batchedRequests) IN
         /\ batchedRequests' = [batchedRequests EXCEPT !.buf = r[2]]
         /\ fr' = [fr EXCEPT ![u] =
                EnterDo([fr[u] EXCEPT !.batchedReq = r[1]], r[1].Request, r[1].ReqBody)]
    /\ UNCHANGED <<beside, inputs, pc, i, z, results, wg, logs, hist>>

\* mutant: results are stored at the next free position, in completion order
SlotAppend(f) == Cardinality({k \in DOMAIN hist.writers : hist.writers[k] # <<>>})

\* the index of the result slices a goroutine assigns to at line 214
Slot(f) == f.batchedReq.Sequence

\* mutant: an error is promoted to every error slot of the batch
AssignPromoteError(u) ==
    /\ Running
    /\ fr[u].pc = "returned"
    /\ resps' = [resps EXCEPT ![Slot(fr[u])] = fr[u].res]
    /\ readBodies' = [readBodies EXCEPT ![Slot(fr[u])] = fr[u].readBody]
    /\ errs' = IF fr[u].err # nil
               THEN [k \in DOMAIN errs |-> fr[u].err]
               ELSE [errs EXCEPT ![Slot(fr[u])] = fr[u].err]
    /\ hist' = [hist EXCEPT !.writers[Slot(fr[u])] = Append(@, u)]
    /\ fr' = [fr EXCEPT ![u].pc = "assigned"]
    /\ UNCHANGED <<beside, inputs, pc, i, z, batchedRequests, wg, logs>>

\* line 214: the assignment of Do's results to the three slices; an index
\* outside the slices panics
Assign(u) ==
    /\ Running
    /\ fr[u].pc = "returned"
    /\ IF Slot(fr[u]) \notin DOMAIN resps
       THEN /\ pc' = "panicked"
            /\ UNCHANGED <<results, hist>>
       ELSE /\ resps' = [resps EXCEPT ![Slot(fr[u])] = fr[u].res]
            /\ readBodies' = [readBodies EXCEPT ![Slot(fr[u])] = fr[u].readBody]
            /\ errs' = [errs EXCEPT ![Slot(fr[u])] = fr[u].err]
            /\ hist' = [hist EXCEPT !.writers[Slot(fr[u])] = Append(@, u)]
            /\ pc' = pc
    /\ fr' = [fr EXCEPT ![u].pc = "assigned"]
    /\ UNCHANGED <<beside, inputs, i, z, batchedRequests, wg, logs>>

\* mutant: wg.Done() is not deferred and is skipped when Do returned an error
DoneUnlessError(u) ==
    /\ Running
    /\ fr[u].pc = "assigned"
    /\ wg' = IF fr[u].err = nil THEN WaitGroupAdd(wg, -1) ELSE wg
    /\ hist' = IF fr[u].err = nil
               THEN [hist EXCEPT !.counter = Append(@, wg'.counter)]
               ELSE hist
    /\ fr' = [fr EXCEPT ![u].pc = "exited",
                         ![u].dones = IF fr[u].err = nil THEN @ + 1 ELSE @]
    /\ UNCHANGED <<beside, inputs, pc, i, z, results, batchedRequests, logs>>

\* line 211: the deferred wg.Done() runs as the goroutine function returns
Done(u) ==
    /\ Running
    /\ fr[u].pc = "assigned"
    /\ wg' = WaitGroupAdd(wg, -1)
    /\ hist' = [hist EXCEPT !.counter = Append(@, wg'.counter)]
    /\ fr' = [fr EXCEPT ![u].pc = "exited", ![u].dones = @ + 1]
    /\ UNCHANGED <<beside, inputs, pc, i, z, results, batchedRequests, logs>>

\* mutant: the caller does not wait for the goroutines
WaitReleasedEarly(w) == TRUE

\* mutant: the caller gives up on the last goroutine still running
WaitReleasedButOne(w) == w.counter <= 1

\* wg.Wait() may return when the counter is zero
WaitReleased(w) == w.counter = 0

\* lines 218-219: wg.Wait() returns and DoBatch returns its named results
Wait ==
    /\ Running
    /\ pc = "wait"
    /\ WaitReleased(wg)
    /\ hist' = [hist EXCEPT !.released = @ + 1]
    /\ pc' = "returned"
    /\ UNCHANGED <<beside, inputs, i, z, results, batchedRequests, wg, fr, logs>>

----------------------------------------------------------------------------
Next ==
    \/ DoCall
    \/ DoDone
    \/ DoBatchEnter
    \/ Send
    \/ Close
    \/ Add
    \/ Launch
    \/ Wait
    \/ \E k \in Frames : ClientReturn(k)
    \/ \E k \in Frames : ReadReturn(k)
    \/ \E k \in Frames : LogReturn(k)
    \/ \E u \in Units : Process(u)
    \/ \E u \in Units : Assign(u)
    \/ \E u \in Units : Done(u)

Spec == Init /\ [][Next]_vars

----------------------------------------------------------------------------
(* The package as its callers use it: build calls in any number, in any    *)
(* interleaving with one logged transport, a direct call or a batch of at  *)
(* most one request.                                                       *)

transport == <<inputs, pc, i, z, results, batchedRequests, wg, fr, logs, hist>>

\* mutant: a name that is looked up and not found is entered in the registry
AfterLookupCaches(m, key) ==
    [n \in DOMAIN m \cup {key} |-> MapIndex(m, n)]

\* the registry after rt := RequestTemplates[templateName] (line 116): a map
\* read adds nothing
AfterLookup(m, key) == m

\* a caller calls BuildBody
BuildBodyCall ==
    /\ Running
    /\ \E templateName \in TemplateNames, data \in DataValues, contentType \in ContentTypes :
         LET r == BuildBody(RequestTemplates, templateName, data, contentType) IN
         /\ built' = [op |-> "BuildBody", templateName |-> templateName, data |-> data,
                      contentType |-> contentType,
                      text |-> r[1], reader |-> r[2], err |-> r[3]]
         /\ RequestTemplates' = AfterLookup(RequestTemplates, templateName)
    /\ UNCHANGED <<svc, date, pair, transport>>

\* a caller calls BuildRequest
BuildRequestCall ==
    /\ Running
    /\ \E method \in Methods, reqPath \in ReqPaths, reqBody \in ReqBodyReaders,
          contentType \in ContentTypes :
         LET r == BuildRequest("justin", contentType, method, reqPath, reqBody) IN
         built' = [op |-> "BuildRequest", userAgent |-> "justin",
                   contentType |-> contentType, method |-> method,
                   reqPath |-> reqPath, reqBody |-> reqBody,
                   req |-> r[1], err |-> r[2]]
    /\ UNCHANGED <<RequestTemplates, svc, date, pair, transport>>

ApiInit ==
    /\ InitTransport
    /\ LenOf(reqs) <= 1
    /\ LenOf(reqBodies) = LenOf(reqs)
    /\ logger = TheLogger
    /\ RequestTemplates \in Registries
    /\ built = NotBuilt
    /\ svc = NoService
    /\ date = NoDate
    /\ pair = NoPair

ApiNext ==
    \/ Next
    \/ BuildBodyCall
    \/ BuildRequestCall

ApiSpec == ApiInit /\ [][ApiNext]_vars

----------------------------------------------------------------------------
(* The Service: src/unnamed/part_001 (justin.go).  One behaviour is one     *)
(* invocation of a Service method; api.Do is taken by its contract: it      *)
(* returns a response with its body text, or an error.                      *)

UserAgent       == "justin 1.1.0"
ContentType     == "application/json"
sandboxBasePath == "https://api.sandbox.justgiving.com"
APIKey          == "apikey"

AccountOperation == "AccountApi:AccountAvailabilityCheck"
PageOperation    == "FundraisingApi:FundraisingPageUrlCheck"

\* res.Status for the status codes the server answers with
StatusText(code) ==
    CASE code = 200 -> "200 OK"
      [] code = 201 -> "201 Created"
      [] code = 302 -> "302 Found"
      [] code = 400 -> "400 Bad request"
      [] code = 404 -> "404 Not Found"

\* a response: its status and its X-Justgiving-Operation header ("" when
\* the header is absent, as Header.Get reports it)
ServiceResponse(code, operation) ==
    [kind |-> "response", StatusCode |-> code, Status |-> StatusText(code),
     Operation |-> operation]

\* body texts: nothing, a JSON document with the given value, other text
EmptyBody  == [kind |-> "empty"]
JSON(v)    == [kind |-> "json", value |-> v]
OtherText  == [kind |-> "text"]

UnmarshalErr == [kind |-> "error", msg |-> "invalid character looking for beginning of value"]

\* json.Unmarshal([]byte(resBody), &result): <<result, err>>
Unmarshal(body, zero) ==
    IF body.kind = "json" THEN <<body.value, nil>> ELSE <<zero, UnmarshalErr>>

CountriesBody   == JSON(<<[name |-> <<"UK">>], [name |-> <<"FR">>]>>)
CurrenciesBody  == JSON(<<[currencyCode |-> <<"GBP">>], [currencyCode |-> <<"EUR">>]>>)
SuggestionsBody == JSON([Names |-> <<"run1", "run2">>])
CreatedBody     == JSON([signOnUrl |-> <<"https://jg", "/signon">>,
                         next |-> [uri |-> <<"https://jg", "/run">>]])
BadCreatedBody  == JSON([signOnUrl |-> <<"https://jg", "%zz">>,
                         next |-> [uri |-> <<"https://jg", "/run">>]])

StatusCodes == {200, 201, 400, 404}
Operations  == {AccountOperation, PageOperation, ""}

\* what api.Do can return to the Service, <<res, resBody, err>>, when the
\* server answers with one of the given bodies: an error without a response,
\* an error with the response that caused it, or a response with its body
DoResults(bodies) ==
    { <<nil, EmptyBody, ConnErr>>,
      <<ServiceResponse(302, ""), EmptyBody, RedirectErr>> }
    \cup { <<ServiceResponse(c, o), b, nil>> : c \in StatusCodes, o \in Operations, b \in bodies }

\* one api.Do call as the Service made it, with what it returned
CallOf(callee, req, body, o) ==
    [calleeID |-> callee, req |-> req, reqBody |-> body,
     res |-> o[1], resBody |-> o[2], err |-> o[3]]

\* text made by fmt.Sprintf or a string constant
Text(format, args) == [format |-> format, args |-> args]

\* svc.BasePath + "/" + svc.APIKey + rest
PathTo(rest) == <<sandboxBasePath, "/", APIKey>> \o rest

\* mutant: the status is looked at before the operation header
AvailabilityStatusFirst(o, operation) ==
    IF o[3] # nil THEN <<FALSE, o[3]>>
    ELSE IF o[1].StatusCode = 404 THEN <<TRUE, nil>>
    ELSE IF o[1].Operation # operation
    THEN <<FALSE, Errorf("invalid response, expected X-Justgiving-Operation response header to be %s but recieved %s",
                         <<operation, o[1].Operation>>)>>
    ELSE IF o[1].StatusCode # 200
    THEN <<FALSE, Errorf("invalid response %s", <<o[1].Status>>)>>
    ELSE <<FALSE, nil>>

\* lines 322-337 and 523-536: <<avail, err>> of AccountAvailabilityCheck from what api.Do
\* returned
Availability(o, operation) ==
    IF o[3] # nil THEN <<FALSE, o[3]>>
    ELSE IF o[1].Operation # operation
    THEN <<FALSE, Errorf("invalid response, expected X-Justgiving-Operation response header to be %s but recieved %s",
                         <<operation, o[1].Operation>>)>>
    ELSE IF o[1].StatusCode = 404 THEN <<TRUE, nil>>
    ELSE IF o[1].StatusCode # 200
    THEN <<FALSE, Errorf("invalid response %s", <<o[1].Status>>)>>
    ELSE <<FALSE, nil>>

\* a step of a Service method leaves the api package and its other callers
\* alone
ServiceOnly == UNCHANGED <<RequestTemplates, built, date, pair, transport>>

\* AccountAvailabilityCheck(account), lines 302-339
AccountAvailabilityCheck ==
    /\ svc.op = "AccountAvailabilityCheck"
    /\ svc.pc = "start"
    /\ LET b == BuildRequest(UserAgent, ContentType, "HEAD",
                             PathTo(<<"/v1/account/", svc.email>>), nil) IN
       IF b[2] # nil
       THEN svc' = [svc EXCEPT !.pc = "returned", !.ret = <<FALSE, b[2]>>]
       ELSE \E o \in DoResults({EmptyBody}) :
              svc' = [svc EXCEPT
                        !.pc = "returned",
                        !.calls = Append(@, CallOf("AccountAvailabilityCheck", b[1], "", o)),
                        !.ret = Availability(o, AccountOperation)]
    /\ ServiceOnly

\* lines 449-466 and 654-671: <<valid, err>> of IsValidCountry and of
\* IsValidCurrencyCode from what api.Do returned; field is the member of the
\* list entries that is compared with the value
IsValid(value, field, o) ==
    IF o[3] # nil THEN <<FALSE, o[3]>>
    ELSE IF o[1].StatusCode # 200
    THEN <<FALSE, Errorf("invalid response %s", <<o[1].Status>>)>>
    ELSE LET u == Unmarshal(o[2], <<>>) IN
         IF u[2] # nil
         THEN <<FALSE, Errorf("invalid response %v", <<u[2]>>)>>
         ELSE <<\E j \in 1..Len(u[1]) : u[1][j][field] = value, nil>>

\* mutant: a validation that could not be run counts as an invalid country
CountryInfoIgnoresError(v) ==
    IF ~v[1] THEN Text("invalid Country", <<>>) ELSE Text("no errors found", <<>>)

\* lines 414-422: info, from <<valid, err>> of account.HasValidCountry(svc)
CountryInfo(v) ==
    IF v[2] # nil THEN Text("errors running validation %v", <<v[2]>>)
    ELSE IF ~v[1] THEN Text("invalid Country", <<>>)
    ELSE Text("no errors found", <<>>)

\* mutant: the request payload is validated whatever the status
UnexpectedStatusAlways(res, expected) == TRUE

\* lines 412 and 590: res.StatusCode != 200, res.StatusCode != 201
UnexpectedStatus(res, expected) == res.StatusCode # expected

\* lines 423 and 609
InvalidResponse(res, info) ==
    Errorf("invalid response %s, result of running validation on request payload was: %s",
           <<res.Status, info>>)

\* AccountRegistration(account) up to the return of the registration call,
\* lines 389-412 and 425
AccountRegistration ==
    /\ svc.op = "AccountRegistration"
    /\ svc.pc = "start"
    /\ LET sb == BuildBody(RequestTemplates, "AccountRegistration", svc.account, ContentType)
           b  == BuildRequest(UserAgent, ContentType, "PUT", PathTo(<<"/v1/account/">>), sb[2])
       IN
       IF sb[3] # nil
       THEN svc' = [svc EXCEPT !.pc = "returned", !.ret = <<sb[3]>>]
       ELSE IF b[2] # nil
       THEN svc' = [svc EXCEPT !.pc = "returned", !.ret = <<b[2]>>]
       ELSE \E o \in DoResults({EmptyBody}) :
              LET made == Append(svc.calls, CallOf("AccountRegistration", b[1], sb[1], o)) IN
              IF o[3] # nil
              THEN svc' = [svc EXCEPT !.pc = "returned", !.calls = made, !.ret = <<o[3]>>]
              ELSE IF UnexpectedStatus(o[1], 200)
              THEN svc' = [svc EXCEPT !.pc = "validation", !.calls = made, !.res = o[1]]
              ELSE svc' = [svc EXCEPT !.pc = "returned", !.calls = made, !.ret = <<nil>>]
    /\ ServiceOnly

\* lines 413-423: account.HasValidCountry(svc), that is IsValidCountry
\* (lines 430-468), and the error AccountRegistration returns
AccountRegistrationValidation ==
    /\ svc.op = "AccountRegistration"
    /\ svc.pc = "validation"
    /\ LET b == BuildRequest(UserAgent, ContentType, "GET", PathTo(<<"/v1/countries">>), nil) IN
       IF b[2] # nil
       THEN svc' = [svc EXCEPT !.pc = "returned",
                      !.ret = <<InvalidResponse(svc.res, CountryInfo(<<FALSE, b[2]>>))>>]
       ELSE \E o \in DoResults({CountriesBody, OtherText}) :
              svc' = [svc EXCEPT
                        !.pc = "returned",
                        !.calls = Append(@, CallOf("IsValidCountry", b[1], "", o)),
                        !.ret = <<InvalidResponse(svc.res,
                                     CountryInfo(IsValid(svc.account.Country, "name", o)))>>]
    /\ ServiceOnly

\* amounts strconv.ParseFloat accepts, among those passed
Floats == {"100"}

\* FundraisingPageForEvent.HasValidTargetAmount
HasValidTargetAmount(page) == page.TargetAmount = "" \/ page.TargetAmount \in Floats

\* lines 592-608: info, from <<valid, err>> of page.HasValidCurrencyCode(svc)
\* and from page.HasValidTargetAmount()
PageInfo(v, page) ==
    LET currency == IF v[2] # nil
                    THEN <<Text("errors running CurrencyCode validation %v; ", <<v[2]>>)>>
                    ELSE IF ~v[1] THEN <<Text("invalid CurrencyCode; ", <<>>)>> ELSE <<>>
        info == IF HasValidTargetAmount(page)
                THEN currency
                ELSE Append(currency, Text("invalid TargetAmount", <<>>))
    IN IF info = <<>> THEN <<Text("no errors found", <<>>)>> ELSE info

\* lines 612-631: the page and sign-on addresses read from the response body
CreatedPage(body) ==
    LET u == Unmarshal(body, [signOnUrl |-> <<>>, next |-> [uri |-> <<>>]]) IN
    IF u[2] # nil THEN <<nil, nil, Errorf("invalid response %v", <<u[2]>>)>>
    ELSE IF Unparsable(u[1].next.uri)
    THEN <<nil, nil, Errorf("invalid response %v", <<"parse">>)>>
    ELSE IF Unparsable(u[1].signOnUrl)
    THEN <<nil, nil, Errorf("invalid response %v", <<"parse">>)>>
    ELSE <<u[1].next.uri, u[1].signOnUrl, nil>>

\* RegisterFundraisingPageForEvent(account, password, page) up to the return
\* of the registration call, lines 560-590 and 612-631
RegisterFundraisingPageForEvent ==
    /\ svc.op = "RegisterFundraisingPageForEvent"
    /\ svc.pc = "start"
    /\ LET sb == BuildBody(RequestTemplates, "RegisterFundraisingPageForEvent", svc.page, ContentType)
           b  == BuildRequest(UserAgent, ContentType, "PUT", PathTo(<<"/v1/fundraising/pages">>), sb[2])
       IN
       IF sb[3] # nil
       THEN svc' = [svc EXCEPT !.pc = "returned", !.ret = <<nil, nil, sb[3]>>]
       ELSE IF b[2] # nil
       THEN svc' = [svc EXCEPT !.pc = "returned", !.ret = <<nil, nil, b[2]>>]
       ELSE \E o \in DoResults({CreatedBody, BadCreatedBody, OtherText}) :
              LET req  == HeaderSet(b[1], "Authorization", "Basic " \o svc.email \o ":" \o svc.password)
                  made == Append(svc.calls, CallOf("RegisterFundraisingPageForEvent", req, sb[1], o))
              IN
              IF o[3] # nil
              THEN svc' = [svc EXCEPT !.pc = "returned", !.calls = made, !.ret = <<nil, nil, o[3]>>]
              ELSE IF UnexpectedStatus(o[1], 201)
              THEN svc' = [svc EXCEPT !.pc = "validation", !.calls = made, !.res = o[1]]
              ELSE svc' = [svc EXCEPT !.pc = "returned", !.calls = made, !.ret = CreatedPage(o[2])]
    /\ ServiceOnly

\* lines 591-609: page.HasValidCurrencyCode(svc), that is IsValidCurrencyCode
\* (lines 636-673), page.HasValidTargetAmount() and the error returned
RegisterFundraisingPageForEventValidation ==
    /\ svc.op = "RegisterFundraisingPageForEvent"
    /\ svc.pc = "validation"
    /\ LET b == BuildRequest(UserAgent, ContentType, "GET",
                             PathTo(<<"/v1/fundraising/currencies">>), nil) IN
       IF b[2] # nil
       THEN svc' = [svc EXCEPT !.pc = "returned",
                      !.ret = <<nil, nil, InvalidResponse(svc.res, PageInfo(<<FALSE, b[2]>>, svc.page))>>]
       ELSE \E o \in DoResults({CurrenciesBody, OtherText}) :
              svc' = [svc EXCEPT
                        !.pc = "returned",
                        !.calls = Append(@, CallOf("IsValidCurrencyCode", b[1], "", o)),
                        !.ret = <<nil, nil,
                                  InvalidResponse(svc.res,
                                     PageInfo(IsValid(svc.page.CurrencyCode, "currencyCode", o),
                                              svc.page))>>]
    /\ ServiceOnly

\* url.QueryEscape(s): every character that is not safe in a query is escaped
QueryEscape(s) == IF s \in BadEscapes THEN "%25zz" ELSE s

\* mutant: suggestions are asked for whenever the operation header is right
PageTakenAnyStatus(avail) == avail[2] = nil

\* lines 531-537: the availability answer says the page name is registered
PageTaken(avail) == ~avail[1] /\ avail[2] = nil

\* FundraisingPageURLCheck(pageShortName) up to the return of the
\* availability call, lines 504-537
FundraisingPageURLCheck ==
    /\ svc.op = "FundraisingPageURLCheck"
    /\ svc.pc = "start"
    /\ LET b == BuildRequest(UserAgent, ContentType, "HEAD",
                             PathTo(<<"/v1/fundraising/pages/", svc.pageShortName>>), nil) IN
       IF b[2] # nil
       THEN svc' = [svc EXCEPT !.pc = "returned", !.ret = <<FALSE, nil, b[2]>>]
       ELSE \E o \in DoResults({EmptyBody}) :
              LET made  == Append(svc.calls, CallOf("FundraisingPageURLCheck", b[1], "", o))
                  avail == Availability(o, PageOperation)
              IN
              IF PageTaken(avail)
              THEN svc' = [svc EXCEPT !.pc = "suggestions", !.calls = made, !.res = o[1]]
              ELSE svc' = [svc EXCEPT !.pc = "returned", !.calls = made,
                                      !.ret = <<avail[1], nil, avail[2]>>]
    /\ ServiceOnly

\* lines 538-555: the suggestions call and the names read from its body; the
\* error of this BuildRequest is overwritten, unread, by the one of api.Do
FundraisingPageURLCheckSuggestions ==
    /\ svc.op = "FundraisingPageURLCheck"
    /\ svc.pc = "suggestions"
    /\ LET b == BuildRequest(UserAgent, ContentType, "GET",
                             PathTo(<<"/v1/fundraising/pages/suggest?preferredName=",
                                      QueryEscape(svc.pageShortName)>>), nil) IN
       \E o \in DoResults({SuggestionsBody, OtherText}) :
           LET made == Append(svc.calls, CallOf("FundraisingPageURLCheck", b[1], "", o))
               u    == Unmarshal(o[2], [Names |-> nil])
           IN
           IF o[3] # nil
           THEN svc' = [svc EXCEPT !.pc = "returned", !.calls = made, !.ret = <<FALSE, nil, o[3]>>]
           ELSE IF u[2] # nil
           THEN svc' = [svc EXCEPT !.pc = "returned", !.calls = made,
                                   !.ret = <<FALSE, nil, Errorf("invalid response %v", <<u[2]>>)>>]
           ELSE svc' = [svc EXCEPT !.pc = "returned", !.calls = made,
                                   !.ret = <<FALSE, u[1].Names, nil>>]
    /\ ServiceOnly

liveBasePath == "https://api.justgiving.com"

\* lines 277-282: svc.BasePath for api.Env; it stays empty for Local
BasePath(env) ==
    CASE env = "Sandbox" -> sandboxBasePath
      [] env = "Live"    -> liveBasePath
      [] OTHER           -> ""

\* lines 273-276: the Service that CreateWithAPIKey makes
NewService(env) == [kind |-> "Service", APIKey |-> APIKey, Env |-> env, BasePath |-> BasePath(env)]

\* what api.Do can return for a request to the given base path: the client
\* has no transport for an address without a scheme
ProbeResults(basePath) ==
    IF basePath = "" THEN {<<nil, EmptyBody, ConnErr>>} ELSE DoResults({EmptyBody})

\* mutant: the key counts as valid only when the probed account exists
CreateResultNeedsAccount(service, probe) ==
    IF probe[2] # nil \/ probe[1]
    THEN <<nil, Errorf("error validating api key %v", <<probe[2]>>)>>
    ELSE <<service, nil>>

\* lines 289-293: <<svc, err>> of CreateWithAPIKey, from <<avail, err>> of
\* the probe
CreateResult(service, probe) ==
    IF probe[2] # nil
    THEN <<nil, Errorf("error validating api key %v", <<probe[2]>>)>>
    ELSE <<service, nil>>

\* CreateWithAPIKey(api), lines 271-294, with the AccountAvailabilityCheck
\* it makes for webmaster@justgiving.com (lines 302-339); the address is a
\* constant that mail.ParseAddress accepts
CreateWithAPIKey ==
    /\ svc.op = "CreateWithAPIKey"
    /\ svc.pc = "start"
    /\ LET service == NewService(svc.env)
           b == BuildRequest(UserAgent, ContentType, "HEAD",
                             <<service.BasePath, "/", service.APIKey,
                               "/v1/account/", "webmaster@justgiving.com">>, nil)
       IN
       IF b[2] # nil
       THEN svc' = [svc EXCEPT !.pc = "returned",
                      !.probes = Append(@, <<FALSE, b[2]>>),
                      !.ret = CreateResult(service, <<FALSE, b[2]>>)]
       ELSE \E o \in ProbeResults(service.BasePath) :
              LET probe == Availability(o, AccountOperation) IN
              svc' = [svc EXCEPT
                        !.pc = "returned",
                        !.calls = Append(@, CallOf("AccountAvailabilityCheck", b[1], "", o)),
                        !.probes = Append(@, probe),
                        !.ret = CreateResult(service, probe)]
    /\ ServiceOnly

----------------------------------------------------------------------------
(* FundraisingPagesForEvent, src/unnamed/part_001 lines 797-821, and the   *)
(* page request it repeats, src/unnamed/part_000 lines 12-68.              *)

MaxPages == 3

DecimalDigits == <<"0", "1", "2", "3", "4", "5", "6", "7", "8", "9">>

\* strconv.FormatUint(n, 10)
RECURSIVE FormatUint(_)
FormatUint(n) ==
    IF n < 10 THEN DecimalDigits[n + 1]
    ELSE FormatUint(n \div 10) \o DecimalDigits[(n % 10) + 1]

\* part_000 lines 22-26: pg, the page asked for
Page(pagination) == IF pagination > 0 THEN FormatUint(pagination) ELSE "1"

\* part_000 lines 15-28: the address of the request for one page
PagePath(eventID, pagination) ==
    PathTo(<<"/v1/event/", FormatUint(eventID), "/pages/?pageSize=100",
             "&page=", Page(pagination)>>)

\* an entry of fundraisingPages in a response, part_000 lines 39-43
PageEntry(pageID) == [charityId |-> 7, pageId |-> pageID, pageShortName |-> "run"]

\* the lists of entries the server answers with
PageLists == { <<>>, <<PageEntry(11)>>, <<PageEntry(0)>>, <<PageEntry(0), PageEntry(12)>> }

\* the documents the server answers a page request with, part_000 lines
\* 44-48
PageBodies ==
    { JSON([totalPages |-> tp, totalFundraisingPages |-> tf, fundraisingPages |-> fp]) :
        tp \in 0..MaxPages, tf \in 0..2, fp \in PageLists }
    \cup {OtherText}

\* what api.Do can return for a page request
PageResults ==
    { <<nil, EmptyBody, ConnErr>>,
      <<ServiceResponse(302, ""), EmptyBody, RedirectErr>>,
      <<ServiceResponse(404, ""), EmptyBody, nil>> }
    \cup { <<ServiceResponse(200, ""), b, nil>> : b \in PageBodies }

FundraisingPageRef(p, eventID) ==
    [charityID |-> p.charityId, eventID |-> eventID, id |-> p.pageId, shortName |-> p.pageShortName]

\* mutant: every entry is collected, whatever its page id
RECURSIVE CollectAll(_, _)
CollectAll(entries, eventID) ==
    IF entries = <<>> THEN <<>>
    ELSE <<FundraisingPageRef(Head(entries), eventID)>> \o CollectAll(Tail(entries), eventID)

\* part_000 lines 54-64: the references made from the entries of a response
RECURSIVE Collect(_, _)
Collect(entries, eventID) ==
    IF entries = <<>> THEN <<>>
    ELSE IF Head(entries).pageId > 0
    THEN <<FundraisingPageRef(Head(entries), eventID)>> \o Collect(Tail(entries), eventID)
    ELSE Collect(Tail(entries), eventID)

\* a nil slice of references: it has no elements
NilSlice == <<>>

ZeroPageResult == [totalPages |-> 0, totalFundraisingPages |-> 0, fundraisingPages |-> <<>>]

\* part_000 lines 32-67: <<results, totalPagination, totalFundraisingPages,
\* err>> of paginatedFundraisingPagesForEvent from what api.Do returned
Paginated(o, eventID) ==
    IF o[3] # nil THEN <<NilSlice, 0, 0, o[3]>>
    ELSE IF o[1].StatusCode # 200
    THEN <<NilSlice, 0, 0, Errorf("invalid response %s", <<o[1].Status>>)>>
    ELSE LET u == Unmarshal(o[2], ZeroPageResult) IN
         IF u[2] # nil
         THEN <<NilSlice, 0, 0, Errorf("invalid response %v", <<Sprintf(u[2])>>)>>
         ELSE <<Collect(u[1].fundraisingPages, eventID), u[1].totalPages,
                u[1].totalFundraisingPages, nil>>

\* mutant: the walk asks for one page more than was reported
WalkOnOneMore(k, totalPagination) == totalPagination > 1 /\ k <= totalPagination + 1

\* part_001 lines 803-804: the walk goes on to page k
WalkOn(k, totalPagination) == totalPagination > 1 /\ k <= totalPagination

\* part_001 lines 816-820: what FundraisingPagesForEvent returns after the
\* walk
WalkResult(found, totalFundraisingPages) ==
    IF totalFundraisingPages # Len(found)
    THEN <<found, Errorf("inconsistent read, expected %d results but have %d",
                         <<totalFundraisingPages, Len(found)>>)>>
    ELSE <<found, nil>>

\* the walk before its first request; last is what api.Do returned to the
\* latest request, requested the pages asked for so far and reported the
\* totalPages values read so far
NoWalk ==
    [k |-> 0, results |-> <<>>, totalPagination |-> 0, totalFundraisingPages |-> 0,
     last |-> <<nil, EmptyBody, nil>>, requested |-> <<>>, reported |-> {}]

\* one call of paginatedFundraisingPagesForEvent(svc, eventID, pagination)
\* and what FundraisingPagesForEvent does with its results: part_001 lines
\* 799-802 for the first page, 805-813 for the others, then the loop test
\* and the return
PageStep(pagination, found, k) ==
    LET b == BuildRequest(UserAgent, ContentType, "GET", PagePath(svc.eventID, pagination), nil) IN
    IF b[2] # nil
    THEN svc' = [svc EXCEPT !.pc = "returned", !.ret = <<NilSlice, b[2]>>]
    ELSE \E o \in PageResults :
           LET r     == Paginated(o, svc.eventID)
               asked == Append(svc.walk.requested, b[1].URL[Len(b[1].URL)])
           IN
           IF r[4] # nil
           THEN svc' = [svc EXCEPT !.pc = "returned", !.ret = <<NilSlice, r[4]>>,
                                   !.walk.last = o, !.walk.requested = asked]
           ELSE LET all  == found \o r[1]
                    walk == [k |-> k, results |-> all,
                             totalPagination |-> r[2], totalFundraisingPages |-> r[3],
                             last |-> o, requested |-> asked,
                             reported |-> svc.walk.reported \cup {r[2]}]
                IN
                IF WalkOn(k, r[2])
                THEN svc' = [svc EXCEPT !.pc = "walk", !.walk = walk]
                ELSE svc' = [svc EXCEPT !.pc = "returned", !.walk = walk,
                                        !.ret = WalkResult(all, r[3])]

\* FundraisingPagesForEvent(eventID) up to the first pass of the loop test,
\* part_001 lines 797-804
FundraisingPagesForEvent ==
    /\ svc.op = "FundraisingPagesForEvent"
    /\ svc.pc = "start"
    /\ PageStep(0, <<>>, 2)
    /\ ServiceOnly

\* one pass of the loop, part_001 lines 804-814
FundraisingPagesForEventNextPage ==
    /\ svc.op = "FundraisingPagesForEvent"
    /\ svc.pc = "walk"
    /\ PageStep(svc.walk.k, svc.walk.results, svc.walk.k + 1)
    /\ ServiceOnly

EventIDs == {7, 42}

\* the environments of an APIKeyContext, lines 234-241
Envs == {"Local", "Sandbox", "Live"}

\* the arguments of the Service methods
Accounts ==
    { [Country |-> c, PlainEmail |-> <<"a@b">>] : c \in {<<"UK">>, <<"Nowhere">>, <<"U", Q, "K">>} }
Pages ==
    { [CharityID |-> <<"7">>, PageShortName |-> <<"run">>, CurrencyCode |-> c, TargetAmount |-> t] :
         c \in {<<"GBP">>, <<"XXX">>}, t \in {"", "100", "abc"} }
PageShortNames == {"run", "%zz"}

\* a Service method is invoked
Invocation(op) ==
    [op |-> op, pc |-> "start", email |-> "a@b", password |-> "pw",
     account |-> nil, page |-> nil, pageShortName |-> "", env |-> "Sandbox",
     eventID |-> 0, walk |-> NoWalk,
     calls |-> <<>>, probes |-> <<>>, res |-> nil, ret |-> <<>>]

Invocations ==
    { Invocation("AccountAvailabilityCheck") }
    \cup { [Invocation("AccountRegistration") EXCEPT !.account = a] : a \in Accounts }
    \cup { [Invocation("RegisterFundraisingPageForEvent") EXCEPT !.page = p] : p \in Pages }
    \cup { [Invocation("FundraisingPageURLCheck") EXCEPT !.pageShortName = n] : n \in PageShortNames }
    \cup { [Invocation("CreateWithAPIKey") EXCEPT !.env = e] : e \in Envs }

ServiceInit ==
    /\ InitTransport
    /\ mode = "Do"
    /\ reqs = DistinctReqs(1)
    /\ reqBodies = EmptyBodies(1)
    /\ logger = nil
    /\ RequestTemplates = init(Sources)
    /\ built = NotBuilt
    /\ svc \in Invocations
    /\ date = NoDate
    /\ pair = NoPair

ServiceNext ==
    \/ AccountAvailabilityCheck
    \/ AccountRegistration
    \/ AccountRegistrationValidation
    \/ RegisterFundraisingPageForEvent
    \/ RegisterFundraisingPageForEventValidation
    \/ FundraisingPageURLCheck
    \/ FundraisingPageURLCheckSuggestions
    \/ CreateWithAPIKey

ServiceSpec == ServiceInit /\ [][ServiceNext]_vars

\* FundraisingPagesForEvent is invoked
WalkInit ==
    /\ InitTransport
    /\ mode = "Do"
    /\ reqs = DistinctReqs(1)
    /\ reqBodies = EmptyBodies(1)
    /\ logger = nil
    /\ RequestTemplates = init(Sources)
    /\ built = NotBuilt
    /\ svc \in { [Invocation("FundraisingPagesForEvent") EXCEPT !.eventID = e] : e \in EventIDs }
    /\ date = NoDate
    /\ pair = NoPair

WalkNext ==
    \/ FundraisingPagesForEvent
    \/ FundraisingPagesForEventNextPage

WalkSpec == WalkInit /\ [][WalkNext]_vars

\* FundraisingPagesForEvent takes the step it can take: every call it makes
\* returns, the client having a Timeout (line 275)
WalkLiveSpec ==
    /\ WalkSpec
    /\ WF_vars(FundraisingPagesForEvent)
    /\ WF_vars(FundraisingPagesForEventNextPage)

----------------------------------------------------------------------------
(* ParseDate, src/models/account.go lines 233-262.  A string is the         *)
(* sequence of its characters; a 64-bit integer is its sign and its decimal *)
(* digits without leading zeros, so that no value is out of reach.          *)

MaxMs == 4

DigitChars == {"0", "1", "2", "3", "4", "5", "6", "7", "8", "9"}

\* the value of a digit character
DigitValue(c) == CHOOSE d \in 0..9 : DecimalDigits[d + 1] = c

\* s begins with the characters of prefix
HasPrefix(s, prefix) ==
    Len(s) >= Len(prefix) /\ SubSeq(s, 1, Len(prefix)) = prefix

\* strings.Replace(s, old, "", -1): every occurrence of old is taken out,
\* from left to right
RECURSIVE Replace(_, _)
Replace(s, old) ==
    IF s = <<>> THEN <<>>
    ELSE IF HasPrefix(s, old) THEN Replace(SubSeq(s, Len(old) + 1, Len(s)), old)
    ELSE <<Head(s)>> \o Replace(Tail(s), old)

\* strings.Index(s, c): the place of the first c, counted from 0, or -1
Index(s, c) ==
    IF \E j \in 1..Len(s) : s[j] = c
    THEN (CHOOSE j \in 1..Len(s) : s[j] = c /\ \A h \in 1..(j - 1) : s[h] # c) - 1
    ELSE -1

\* digits without their leading zeros; the digits of 0 are <<>>
RECURSIVE Canonical(_)
Canonical(digits) ==
    IF digits # <<>> /\ Head(digits) = "0" THEN Canonical(Tail(digits)) ELSE digits

\* a <= b for two digit sequences of the same length
RECURSIVE DigitsLE(_, _)
DigitsLE(a, b) ==
    IF a = <<>> THEN TRUE
    ELSE IF DigitValue(Head(a)) # DigitValue(Head(b))
    THEN DigitValue(Head(a)) < DigitValue(Head(b))
    ELSE DigitsLE(Tail(a), Tail(b))

\* the digits of 1<<63 - 1 and of 1<<63
MaxInt64 == <<"9","2","2","3","3","7","2","0","3","6","8","5","4","7","7","5","8","0","7">>
MinInt64 == <<"9","2","2","3","3","7","2","0","3","6","8","5","4","7","7","5","8","0","8">>

\* the magnitude fits below the limit
Within(digits, limit) ==
    \/ Len(digits) < Len(limit)
    \/ Len(digits) = Len(limit) /\ DigitsLE(digits, limit)

Int64(neg, digits) == [neg |-> neg /\ digits # <<>>, digits |-> digits]

ErrSyntax == [kind |-> "error", msg |-> "strconv.ParseInt: invalid syntax"]
ErrRange  == [kind |-> "error", msg |-> "strconv.ParseInt: value out of range"]

\* strconv.ParseInt(s, 10, 64): <<value, err>>; a sign may come first, the
\* rest is digits; a value out of range comes back as the nearest limit
ParseInt(s) ==
    LET signed == s # <<>> /\ Head(s) \in {"+", "-"}
        neg    == s # <<>> /\ Head(s) = "-"
        body   == IF signed THEN Tail(s) ELSE s
        digits == Canonical(body)
        limit  == IF neg THEN MinInt64 ELSE MaxInt64
    IN
    IF body = <<>> \/ \E j \in 1..Len(body) : body[j] \notin DigitChars
    THEN <<Int64(FALSE, <<>>), ErrSyntax>>
    ELSE IF ~Within(digits, limit)
    THEN <<Int64(neg, limit), ErrRange>>
    ELSE <<Int64(neg, digits), nil>>

\* line 258: ui < 1000
Below1000(ui) == ui.neg \/ Len(ui.digits) < 4

\* mutant: the milliseconds are divided by 100
QuotientBy100(ui) == Int64(FALSE, SubSeq(ui.digits, 1, Len(ui.digits) - 2))

\* line 261: ui/1000 for a ui that is not below 1000
Quotient(ui) == Int64(FALSE, SubSeq(ui.digits, 1, Len(ui.digits) - 3))

\* the zero time.Time, and time.Unix(sec, 0)
ZeroTime  == [kind |-> "time", zero |-> TRUE, sec |-> Int64(FALSE, <<>>)]
Unix(sec) == [kind |-> "time", zero |-> FALSE, sec |-> sec]

DatePrefix == <<"/", "D", "a", "t", "e", "(">>

\* ParseDate(date): <<result, err>>, lines 242-262
ParseDate(s0) ==
    IF s0 = <<>>
    THEN <<ZeroTime, [kind |-> "error", msg |-> "no value set for EventDate"]>>
    ELSE LET s == Replace(s0, DatePrefix)
             k == Index(s, "+")
         IN
         IF k < 4
         THEN <<ZeroTime, [kind |-> "error", msg |-> "invalid format for EventDate"]>>
         ELSE LET p == ParseInt(SubSeq(s, 1, k)) IN
              IF p[2] # nil THEN <<ZeroTime, p[2]>>
              ELSE IF Below1000(p[1])
              THEN <<ZeroTime, [kind |-> "error", msg |-> "invalid format for EventDate"]>>
              ELSE <<Unix(Quotient(p[1])), nil>>

\* the characters the millisecond part of an argument is made of
MsChars == {"0", "1", "9", "-", "x"}

RECURSIVE StringsOver(_, _)
StringsOver(chars, n) ==
    IF n = 0 THEN {<<>>}
    ELSE LET shorter == StringsOver(chars, n - 1) IN
         shorter \cup { Append(t, c) : t \in {u \in shorter : Len(u) = n - 1}, c \in chars }

\* millisecond parts: the short ones, and long ones around the largest
\* 64-bit value
MsParts ==
    StringsOver(MsChars, MaxMs)
    \cup { <<"1","4","7","4","6","7","5","2","0","0","0","0","0">>,
           MaxInt64, MinInt64, <<"-">> \o MinInt64, <<"0">> \o MaxInt64, MaxInt64 \o <<"0">> }

\* the arguments of ParseDate: a millisecond part, with or without the
\* leading /Date( and with or without the offset that follows it
DateArguments ==
    { [prefix |-> p, ms |-> m, rest |-> r] :
        p \in {<<>>, DatePrefix},
        m \in MsParts,
        r \in {<<>>, <<"+", "0", "0", "0", "0", ")", "/">>, <<")", "/">>} }

TextOf(a) == a.prefix \o a.ms \o a.rest

DateInit ==
    /\ InitTransport
    /\ mode = "Do"
    /\ reqs = DistinctReqs(1)
    /\ reqBodies = EmptyBodies(1)
    /\ logger = nil
    /\ RequestTemplates = init(Sources)
    /\ built = NotBuilt
    /\ svc = NoService
    /\ pair = NoPair
    /\ \E a \in DateArguments : date = [pc |-> "start", arg |-> a, ret |-> <<>>]

\* a caller calls ParseDate
ParseDateCall ==
    /\ date.pc = "start"
    /\ date' = [date EXCEPT !.pc = "returned", !.ret = ParseDate(TextOf(date.arg))]
    /\ UNCHANGED <<RequestTemplates, built, svc, pair, transport>>

DateNext == ParseDateCall

DateSpec == DateInit /\ [][DateNext]_vars

----------------------------------------------------------------------------
(* Two DoBatch invocations at once, src/models/account.go lines 188-221.   *)
(* What a declaration or a make creates is an object of the heap, reached   *)
(* through the local variable that holds it; the goroutines of an           *)
(* invocation are closures over its locals.  Do is taken by its contract:   *)
(* it returns the answer to the request it was given, or an error.          *)

MaxPair == 2

Callers == {1, 2}

\* the arguments of invocation c: n requests and their body texts, none of
\* them passed to the other invocation
PairReqs(c, n)   == [k \in 0..n-1 |-> NewRequest(10 * c + k)]
PairBodies(c, n) == [k \in 0..n-1 |-> "{" \o ToString(10 * c + k) \o "}"]

\* a local variable that holds no object yet
NoObject == <<0, "none">>

\* mutant: the work queue is a variable of the package
NewPackageLevel(c, name) == IF name = "batchedRequests" THEN <<0, name>> ELSE <<c, name>>

\* the object made by invocation c for its local variable name (lines
\* 192-197 and 205): every invocation makes its own
New(c, name) == <<c, name>>

\* the heap after object a is set to obj
Store(heap, a, obj) == [x \in (DOMAIN heap) \cup {a} |-> IF x = a THEN obj ELSE heap[x]]

\* the locals of an invocation before its first statement
Locals(c, n) ==
    [pc |-> "start", reqs |-> PairReqs(c, n), reqBodies |-> PairBodies(c, n),
     z |-> 0, i |-> 0,
     resps |-> NoObject, readBodies |-> NoObject, errs |-> NoObject,
     batchedRequests |-> NoObject, wg |-> NoObject,
     unit |-> [u \in 1..n |-> [pc |-> "idle", batchedReq |-> ZeroBatchedRequest,
                               ret |-> <<nil, "", nil>>]]]

\* what Do returns for a request: its response and body text, or an error
DoReturns(req) == { <<OKResponse(req), BodyText(req), nil>>, <<nil, "", ConnErr>> }

PairInit ==
    /\ InitTransport
    /\ mode = "DoBatch"
    /\ reqs = DistinctReqs(0)
    /\ reqBodies = DistinctBodies(0)
    /\ logger = TheLogger
    /\ RequestTemplates = init(Sources)
    /\ built = NotBuilt
    /\ svc = NoService
    /\ date = NoDate
    /\ \E n1 \in 0..MaxPair, n2 \in 0..MaxPair :
         pair = [pc |-> "running", heap |-> <<>>,
                 inv |-> [c \in Callers |-> Locals(c, IF c = 1 THEN n1 ELSE n2)],
                 logged |-> {}]

PairOnly == UNCHANGED <<RequestTemplates, built, svc, date, transport>>

Panicked == [pair EXCEPT !.pc = "panicked"]

\* lines 189-197: z, the three result slices and the buffered channel
PairEnter(c) ==
    /\ pair.pc = "running"
    /\ pair.inv[c].pc = "start"
    /\ LET l  == pair.inv[c]
           n  == LenOf(l.reqs)
           h1 == Store(pair.heap, New(c, "resps"), Make(n, nil))
           h2 == Store(h1, New(c, "readBodies"), Make(n, ""))
           h3 == Store(h2, New(c, "errs"), Make(n, nil))
           h4 == Store(h3, New(c, "batchedRequests"),
                       [buf |-> <<>>, cap |-> ChanCap(n), closed |-> FALSE])
       IN pair' = [pair EXCEPT
                     !.heap = h4,
                     !.inv[c] = [l EXCEPT !.pc = "fill", !.z = n, !.i = 0,
                                   !.resps = New(c, "resps"),
                                   !.readBodies = New(c, "readBodies"),
                                   !.errs = New(c, "errs"),
                                   !.batchedRequests = New(c, "batchedRequests")]]
    /\ PairOnly

\* lines 198-200: one iteration of the fill loop; a send blocks while the
\* buffer is full and panics on a closed channel
PairSend(c) ==
    /\ pair.pc = "running"
    /\ pair.inv[c].pc = "fill"
    /\ pair.inv[c].i < pair.inv[c].z
    /\ LET l  == pair.inv[c]
           ch == pair.heap[l.batchedRequests]
       IN
       IF ch.closed THEN pair' = Panicked
       ELSE /\ Len(ch.buf) < ch.cap
            /\ pair' = [pair EXCEPT
                          !.heap[l.batchedRequests].buf =
                              Append(@, batchedRequest(l.i, l.reqs[l.i], l.reqBodies[l.i])),
                          !.inv[c].i = @ + 1]
    /\ PairOnly

\* line 202: close(batchedRequests); closing a closed channel panics
PairClose(c) ==
    /\ pair.pc = "running"
    /\ pair.inv[c].pc = "fill"
    /\ pair.inv[c].i = pair.inv[c].z
    /\ LET l == pair.inv[c] IN
       IF pair.heap[l.batchedRequests].closed THEN pair' = Panicked
       ELSE pair' = [pair EXCEPT !.heap[l.batchedRequests].closed = TRUE,
                                 !.inv[c].pc = "add"]
    /\ PairOnly

\* lines 205-206: var wg sync.WaitGroup; wg.Add(z)
PairAdd(c) ==
    /\ pair.pc = "running"
    /\ pair.inv[c].pc = "add"
    /\ LET l == pair.inv[c]
           w == WaitGroupAdd([counter |-> 0, panicked |-> FALSE], l.z)
       IN pair' = [pair EXCEPT
                     !.heap = Store(@, New(c, "wg"), w),
                     !.inv[c] = [l EXCEPT !.wg = New(c, "wg"), !.i = 0,
                                   !.pc = IF l.z = 0 THEN "wait" ELSE "launch"]]
    /\ PairOnly

\* lines 209-216: one iteration of the launch loop starts a goroutine
PairLaunch(c) ==
    /\ pair.pc = "running"
    /\ pair.inv[c].pc = "launch"
    /\ pair.inv[c].i < pair.inv[c].z
    /\ LET l == pair.inv[c] IN
       pair' = [pair EXCEPT
                  !.inv[c] = [l EXCEPT !.unit[l.i + 1].pc = "launched", !.i = @ + 1,
                                !.pc = IF l.i + 1 < l.z THEN "launch" ELSE "wait"]]
    /\ PairOnly

\* lines 213-214: batchedReq := <-batchedRequests, then Do is called with
\* it; the client panics when the request is nil
PairProcess(c, u) ==
    /\ pair.pc = "running"
    /\ u \in DOMAIN pair.inv[c].unit
    /\ pair.inv[c].unit[u].pc = "launched"
    /\ LET l  == pair.inv[c]
           ch == pair.heap[l.batchedRequests]
           r  == Receive(ch)
       IN
       /\ ch.buf # <<>> \/ ch.closed
       /\ IF r[1].Request = nil THEN pair' = Panicked
          ELSE pair' = [pair EXCEPT
                          !.heap[l.batchedRequests].buf = r[2],
                          !.inv[c].unit[u] = [@ EXCEPT !.pc = "inDo", !.batchedReq = r[1]]]
    /\ PairOnly

\* line 214 and line 211: Do returns, having told the logger; its results
\* are assigned to the three slices at the item's index (an index outside
\* them panics), and the deferred wg.Done() runs
PairFinish(c, u) ==
    /\ pair.pc = "running"
    /\ u \in DOMAIN pair.inv[c].unit
    /\ pair.inv[c].unit[u].pc = "inDo"
    /\ LET l  == pair.inv[c]
           br == l.unit[u].batchedReq
           w  == WaitGroupAdd(pair.heap[l.wg], -1)
       IN
       \E o \in DoReturns(br.Request) :
          IF br.Sequence \notin DOMAIN pair.heap[l.resps] \/ w.panicked
          THEN pair' = Panicked
          ELSE pair' = [pair EXCEPT
                          !.heap[l.resps][br.Sequence] = o[1],
                          !.heap[l.readBodies][br.Sequence] = o[2],
                          !.heap[l.errs][br.Sequence] = o[3],
                          !.heap[l.wg] = w,
                          !.logged = @ \cup {Call(originID, calleeID, br.Request, br.ReqBody,
                                                  o[1], o[2], o[3])},
                          !.inv[c].unit[u] = [@ EXCEPT !.pc = "exited", !.ret = o]]
    /\ PairOnly

\* lines 218-219: wg.Wait() returns and DoBatch returns its named results
PairWait(c) ==
    /\ pair.pc = "running"
    /\ pair.inv[c].pc = "wait"
    /\ WaitReleased(pair.heap[pair.inv[c].wg])
    /\ pair' = [pair EXCEPT !.inv[c].pc = "returned"]
    /\ PairOnly

PairNext ==
    \/ \E c \in Callers : PairEnter(c)
    \/ \E c \in Callers : PairSend(c)
    \/ \E c \in Callers : PairClose(c)
    \/ \E c \in Callers : PairAdd(c)
    \/ \E c \in Callers : PairLaunch(c)
    \/ \E c \in Callers, u \in 1..MaxPair : PairProcess(c, u)
    \/ \E c \in Callers, u \in 1..MaxPair : PairFinish(c, u)
    \/ \E c \in Callers : PairWait(c)

PairSpec == PairInit /\ [][PairNext]_vars

\* the calling goroutine keeps running; the scheduler is fair to every
\* goroutine of the batch; every call of the client, every body read and
\* every call of the logger returns
LiveSpec ==
    /\ Spec
    /\ WF_vars(DoCall) /\ WF_vars(DoDone)
    /\ WF_vars(DoBatchEnter) /\ WF_vars(Send) /\ WF_vars(Close)
    /\ WF_vars(Add) /\ WF_vars(Launch) /\ WF_vars(Wait)
    /\ \A k \in Frames :
         WF_vars(ClientReturn(k)) /\ WF_vars(ReadReturn(k)) /\ WF_vars(LogReturn(k))
    /\ \A u \in Units :
         WF_vars(Process(u)) /\ WF_vars(Assign(u)) /\ WF_vars(Done(u))

----------------------------------------------------------------------------
(* Properties *)

BatchReturned == mode = "DoBatch" /\ pc = "returned"

\* the goroutines that received work item k and called Do for it
HoldersOf(k) ==
    {u \in Units : fr[u].clientCalls > 0 /\ fr[u].batchedReq.Sequence = k}

\* goroutine u wrote a result slot
Wrote(u) ==
    \E k \in DOMAIN hist.writers :
        \E j \in 1..Len(hist.writers[k]) : hist.writers[k][j] = u

\* the Do invocation of frame k failed: the client call or the body read
Failed(k) == fr[k].clientErr # nil \/ fr[k].readErr # nil

\* the work items whose Do invocation failed
FailedItems == {k \in DOMAIN reqs : \E u \in HoldersOf(k) : Failed(u)}

\* C1: when DoBatch returns, resps, readBodies and errs have the length of
\* reqs, and for every index k the triple in slot k is the triple returned by
\* the Do invocation made for reqs[k] with reqBodies[k]: a response in slot k
\* answers reqs[k], whatever the order in which the calls completed.
C1_Ordering ==
    BatchReturned =>
        /\ DOMAIN resps = DOMAIN reqs
        /\ DOMAIN readBodies = DOMAIN reqs
        /\ DOMAIN errs = DOMAIN reqs
        /\ \A k \in DOMAIN reqs :
             /\ \E u \in HoldersOf(k) :
                  /\ fr[u].returns = 1
                  /\ fr[u].req = reqs[k]
                  /\ fr[u].reqBody = reqBodies[k]
                  /\ <<resps[k], readBodies[k], errs[k]>>
                        = <<fr[u].res, fr[u].readBody, fr[u].err>>
             /\ resps[k] # nil => resps[k].Request = reqs[k]
             /\ errs[k] = nil =>
                  resps[k] = OKResponse(reqs[k]) /\ readBodies[k] = BodyText(reqs[k])

\* a batch of two returned whose second request completed (and was logged)
\* first, was taken by the first goroutine, and failed while the first succeeded
C1_Witness ==
    /\ BatchReturned
    /\ z = 2
    /\ Len(logs) = 2
    /\ fr[logs[1].by].batchedReq.Sequence = 1
    /\ fr[1].batchedReq.Sequence = 1
    /\ errs[0] = nil
    /\ errs[1] # nil

\* C2: in every state where DoBatch has returned, every goroutine has
\* finished its Do call, has written its result slot, has signalled the
\* WaitGroup and has exited; no goroutine was launched beyond the z of them.
C2_ReturnsAfterAllUnits ==
    BatchReturned =>
        /\ \A u \in 1..LenOf(reqs) :
             /\ fr[u].pc = "exited"
             /\ fr[u].returns = 1
             /\ Wrote(u)
             /\ fr[u].dones = 1
        /\ \A u \in Units \ (1..LenOf(reqs)) : fr[u].pc = "idle"

\* a batch of at least two returned, with a body read that failed
C2_Witness ==
    /\ BatchReturned
    /\ z >= 2
    /\ \E u \in 1..z : fr[u].pc = "exited" /\ fr[u].readErr # nil

\* C3: for a batch of two or more in which exactly one request fails, after
\* DoBatch returns only that request's error slot is non-nil and every other
\* slot holds its own request's successful response and full body; every
\* request was handed to the client, whatever happened to its siblings.
C3_Isolation ==
    (BatchReturned /\ z >= 2) =>
        /\ \A k \in DOMAIN reqs : \E u \in HoldersOf(k) : fr[u].clientCalls = 1
        /\ \A j \in DOMAIN reqs :
             FailedItems = {j} =>
                /\ errs[j] # nil
                /\ \A k \in DOMAIN reqs \ {j} :
                     /\ errs[k] = nil
                     /\ resps[k] = OKResponse(reqs[k])
                     /\ readBodies[k] = BodyText(reqs[k])

\* a batch of two returned in which request 0 failed at the transport, before
\* request 1 was even handed to the client, and request 1 succeeded
C3_Witness ==
    /\ BatchReturned
    /\ z = 2
    /\ FailedItems = {0}
    /\ Len(logs) = 2
    /\ fr[logs[1].by].batchedReq.Sequence = 0
    /\ logs[1].call.Res = "<nil>"
    /\ errs[1] = nil

\* C4: no index of the result slices is written by two goroutines, no two
\* goroutines that are about to write hold the same index, and when DoBatch
\* returns every index below z has been written exactly once.
C4_DisjointWrites ==
    /\ \A k \in DOMAIN hist.writers : Len(hist.writers[k]) <= 1
    /\ \A u, v \in Units :
         (u # v /\ fr[u].clientCalls > 0 /\ fr[v].clientCalls > 0)
            => Slot(fr[u]) # Slot(fr[v])
    /\ BatchReturned => \A k \in DOMAIN reqs : Len(hist.writers[k]) = 1

\* two goroutines are about to write their slots at the same time
C4_Witness ==
    /\ fr[1].pc = "returned"
    /\ fr[2].pc = "returned"
    /\ Slot(fr[1]) # Slot(fr[2])

\* the number of times the counter value 0 occurs in a counter history
ZeroCount(h) == Cardinality({j \in 1..Len(h) : h[j] = 0})

\* C5: wg.Add(z) precedes every launch; a goroutine signals exactly once, as
\* it exits, on the success, transport error and body-read error paths alike;
\* the counter is never negative and is zero exactly once from wg.Add on;
\* wg.Wait releases the caller at most once, only at zero, and exactly once
\* by the time DoBatch returns.
C5_BarrierDiscipline ==
    /\ (\E u \in Units : fr[u].pc # "idle") =>
          (Len(hist.counter) >= 1 /\ hist.counter[1] = LenOf(reqs))
    /\ wg.counter >= 0
    /\ ~wg.panicked
    /\ \A u \in Units :
         /\ fr[u].dones <= 1
         /\ fr[u].pc = "exited" <=> fr[u].dones = 1
    /\ ZeroCount(hist.counter) <= 1
    /\ hist.released <= 1
    /\ hist.released = 1 => wg.counter = 0
    /\ BatchReturned =>
         /\ hist.released = 1
         /\ ZeroCount(hist.counter) = 1
         /\ hist.counter[Len(hist.counter)] = 0
         /\ \A u \in 1..LenOf(reqs) : fr[u].dones = 1

\* a batch of two returned: one goroutine came through the transport error
\* path, the other through the body-read error path, the counter went 2, 1, 0
C5_Witness ==
    /\ BatchReturned
    /\ hist.counter = <<2, 1, 0>>
    /\ \E u, v \in 1..z :
         /\ fr[u].clientErr # nil /\ fr[u].dones = 1
         /\ fr[v].readErr # nil /\ fr[v].dones = 1

\* C6: DoBatch with no requests launches no goroutine, makes no client call,
\* emits no log record, never waits on a non-zero counter (every state before
\* the return has a next step), and returns three empty sequences.
C6_ZeroBatch ==
    (mode = "DoBatch" /\ LenOf(reqs) = 0) =>
        /\ \A k \in Frames : fr[k].pc = "idle" /\ fr[k].clientCalls = 0
        /\ logs = <<>>
        /\ pc \in {"start", "close", "add", "wait", "returned"}
        /\ pc = "wait" => wg.counter = 0
        /\ pc # "returned" => ENABLED Next
        /\ pc = "returned" =>
             DOMAIN resps = {} /\ DOMAIN readBodies = {} /\ DOMAIN errs = {}

\* DoBatch returned for an empty reqs (and a reqBodies holding one body)
C6_Witness ==
    /\ BatchReturned
    /\ LenOf(reqs) = 0
    /\ LenOf(reqBodies) = 1
    /\ hist.released = 1

\* the positions in logs of the Call records emitted by frame k
LogsBy(k) == {j \in 1..Len(logs) : logs[j].by = k}

\* C7 as stated: whenever the client call fails, Do returns a non-nil error,
\* a nil response and an empty body, reads no body, and with a logger emits
\* exactly one Call record whose Err is the error text.
C7_Original ==
    \A k \in Frames :
        (fr[k].clientErr # nil /\ fr[k].returns = 1) =>
            /\ fr[k].err # nil
            /\ fr[k].res = nil
            /\ fr[k].readBody = ""
            /\ fr[k].reads = 0
            /\ logger # nil =>
                 /\ Cardinality(LogsBy(k)) = 1
                 /\ \A j \in LogsBy(k) : logs[j].call.Err = fr[k].clientErr.msg

\* C7 amended: whenever the client call fails, Do returns the client's
\* non-nil error and the response exactly as the client returned it (nil when
\* the client returned none, as for a refused connection; the client's
\* response when it returned one with the error), an empty body, reads no
\* body, and with a logger emits exactly one Call record whose Err is the
\* error text.
C7_TransportFailure ==
    \A k \in Frames :
        (fr[k].clientErr # nil /\ fr[k].returns = 1) =>
            /\ fr[k].err = fr[k].clientErr
            /\ fr[k].res = fr[k].clientRes
            /\ fr[k].clientErr = ConnErr => fr[k].res = nil
            /\ fr[k].readBody = ""
            /\ fr[k].reads = 0
            /\ logger # nil =>
                 /\ Cardinality(LogsBy(k)) = 1
                 /\ \A j \in LogsBy(k) :
                      /\ logs[j].call.Err = fr[k].clientErr.msg
                      /\ logs[j].call.Err # ""
            /\ logger = nil => LogsBy(k) = {}

\* a direct Do call with a logger returned after the client gave back a
\* response together with an error
C7_Witness ==
    /\ mode = "Do"
    /\ pc = "returned"
    /\ logger # nil
    /\ fr[0].clientErr = RedirectErr
    /\ fr[0].res # nil
    /\ Len(logs) = 1

\* C8: a Do invocation emits at most one Call record; with a logger it has
\* emitted exactly one by the time it returns, whether it succeeded, failed
\* at the transport or failed reading the body; without a logger nothing is
\* emitted and Do returns all the same (the only panic is DoBatch's index out
\* of range on a short reqBodies); a returned batch with a logger has
\* emitted exactly z records.
C8_LoggingCardinality ==
    /\ \A k \in Frames :
         /\ Cardinality(LogsBy(k)) <= 1
         /\ fr[k].returns = 1 =>
              Cardinality(LogsBy(k)) = (IF logger # nil THEN 1 ELSE 0)
    /\ logger = nil => logs = <<>>
    /\ pc = "panicked" => (mode = "DoBatch" /\ LenOf(reqBodies) < LenOf(reqs))
    /\ (BatchReturned /\ logger # nil) => Len(logs) = LenOf(reqs)
    /\ (mode = "Do" /\ pc = "returned") => fr[0].returns = 1

\* a batch of two with a logger returned with two records: one call
\* succeeded, the other failed reading the body
C8_Witness ==
    /\ BatchReturned
    /\ logger # nil
    /\ Len(logs) = 2
    /\ \E u, v \in 1..z : ~Failed(u) /\ fr[v].readErr # nil

\* the index in reqs and reqBodies of the request frame k was called with
ArgIndex(k) == IF k = 0 THEN 0 ELSE fr[k].batchedReq.Sequence

\* C9: for a successful call with a logger, exactly one Call record is
\* emitted; its Req and Res are the non-empty renderings of the request
\* passed and of the response returned, its ReqBody is the body text passed,
\* its ResBody is the fully drained body returned to the caller, and its
\* OriginID and CalleeID are the identifiers passed.
C9_SuccessfulCallRecord ==
    \A k \in Frames :
        (logger # nil /\ fr[k].returns = 1 /\ ~Failed(k)) =>
            /\ Cardinality(LogsBy(k)) = 1
            /\ \A j \in LogsBy(k) :
                 LET c == logs[j].call IN
                 /\ c.Req # "" /\ c.Req # "<nil>"
                 /\ c.Req = "&{GET " \o reqs[ArgIndex(k)].URL \o "}"
                 /\ c.Res # "" /\ c.Res # "<nil>"
                 /\ c.Res = "&{200 OK}"
                 /\ c.ReqBody = reqBodies[ArgIndex(k)]
                 /\ c.ResBody = fr[k].readBody
                 /\ c.ResBody = BodyText(reqs[ArgIndex(k)])
                 /\ c.OriginID = originID
                 /\ c.CalleeID = calleeID

\* a direct Do call with a non-empty request body succeeded and was logged
C9_Witness ==
    /\ mode = "Do"
    /\ pc = "returned"
    /\ logger # nil
    /\ ~Failed(0)
    /\ reqBodies[0] # ""
    /\ Len(logs) = 1
    /\ logs[1].call.ReqBody = reqBodies[0]

\* C10 as stated: a Call record emitted for a call that completed without
\* error has the empty string as Err.
C10_Original ==
    \A j \in 1..Len(logs) : ~Failed(logs[j].by) => logs[j].call.Err = ""

\* C10 amended: a Call record emitted for a call that completed without
\* error has the text "<nil>" as Err (the rendering of a nil error); Err is
\* never the empty string, and for a failed call it is the error's text.
C10_ErrFieldOfSuccess ==
    \A j \in 1..Len(logs) :
        /\ ~Failed(logs[j].by) => logs[j].call.Err = "<nil>"
        /\ Failed(logs[j].by) => logs[j].call.Err = fr[logs[j].by].err.msg
        /\ logs[j].call.Err # ""

\* a record of a successful call has been emitted and the call has returned
C10_Witness ==
    \E j \in 1..Len(logs) :
        /\ ~Failed(logs[j].by)
        /\ fr[logs[j].by].returns = 1
        /\ logs[j].call.Err = "<nil>"


\* C11 as stated: the Call record emitted for a transport-level failure has
\* the empty string as Res and as ResBody.
C11_Original ==
    \A j \in 1..Len(logs) :
        fr[logs[j].by].clientErr # nil =>
            logs[j].call.Res = "" /\ logs[j].call.ResBody = ""

\* C11 amended: the Call record emitted for a transport-level failure has the
\* empty string as ResBody, and as Res the rendering of the response the
\* client returned: the text "<nil>" when the client returned no response;
\* Res is never the empty string.
C11_ResFieldsOfTransportFailure ==
    \A j \in 1..Len(logs) :
        fr[logs[j].by].clientErr # nil =>
            /\ logs[j].call.ResBody = ""
            /\ logs[j].call.Res # ""
            /\ fr[logs[j].by].clientRes = nil => logs[j].call.Res = "<nil>"
            /\ fr[logs[j].by].clientRes # nil =>
                 logs[j].call.Res = "&{" \o fr[logs[j].by].clientRes.Status \o "}"

\* a record was emitted for a call whose connection was refused
C11_Witness ==
    \E j \in 1..Len(logs) :
        /\ fr[logs[j].by].clientErr = ConnErr
        /\ logs[j].call.Res = "<nil>"
        /\ logs[j].call.ResBody = ""


\* C12: when the client returned a response and reading its body failed, Do
\* returns the read error and the text read so far (empty if none); with a
\* logger it emits exactly one Call record, whose Err is the error text and
\* whose ResBody is that partial text; in a returned batch the error is in the
\* slot of its own request, with the partial text, and no slot of a request
\* that did not fail holds an error.
C12_BodyReadFailure ==
    /\ \A k \in Frames :
         (fr[k].readErr # nil /\ fr[k].returns = 1) =>
            /\ fr[k].err = fr[k].readErr
            /\ fr[k].res = fr[k].clientRes /\ fr[k].res # nil
            /\ fr[k].readBody = fr[k].readBuf
            /\ fr[k].readBody \in {"", PartialText(fr[k].req)}
            /\ logger # nil =>
                 /\ Cardinality(LogsBy(k)) = 1
                 /\ \A j \in LogsBy(k) :
                      /\ logs[j].call.Err = fr[k].readErr.msg
                      /\ logs[j].call.ResBody = fr[k].readBuf
    /\ BatchReturned =>
         \A j \in DOMAIN reqs :
            /\ \A u \in HoldersOf(j) :
                 fr[u].readErr # nil =>
                    errs[j] = fr[u].readErr /\ readBodies[j] = fr[u].readBuf
            /\ (\A u \in HoldersOf(j) : ~Failed(u)) => errs[j] = nil

\* a batch of two with a logger returned: the body read of request 1 failed
\* after part of the body was read, request 0 succeeded
C12_Witness ==
    /\ BatchReturned
    /\ z = 2
    /\ logger # nil
    /\ errs[0] = nil
    /\ errs[1] = ReadErr
    /\ readBodies[1] = "body"
    /\ \E j \in 1..Len(logs) : logs[j].call.ResBody = "body"


\* C13: a Do invocation closes a response body at most once; when the client
\* returned a response without error, Do has closed its body exactly once by
\* the time it returns, whether the read succeeded or failed, and not before
\* the read ended; when the client returned an error Do closes nothing (a
\* response that comes with an error was closed by the client); when DoBatch
\* returns, the body of every response a goroutine obtained without error has
\* been closed.
C13_ResourceRelease ==
    /\ \A k \in Frames :
         /\ fr[k].closes <= 1
         /\ fr[k].pc \in {"idle", "launched", "client", "read", "inLogger"} =>
              fr[k].closes = 0
         /\ (fr[k].returns = 1 /\ fr[k].clientErr = nil) => fr[k].closes = 1
         /\ fr[k].clientErr # nil => fr[k].closes = 0
    /\ BatchReturned =>
         \A u \in 1..LenOf(reqs) :
            (fr[u].clientRes # nil /\ fr[u].clientErr = nil) => fr[u].closes = 1

\* a batch of two returned: one body was read in full, the read of the other
\* failed, and both bodies were closed
C13_Witness ==
    /\ BatchReturned
    /\ z = 2
    /\ \E u, v \in 1..z :
         /\ fr[u].clientErr = nil /\ fr[u].readErr = nil /\ fr[u].closes = 1
         /\ fr[v].readErr # nil /\ fr[v].closes = 1


\* what a caller can observe of the Do invocation of frame k: the client
\* calls made, the Call records emitted, the triple returned
EffectsOf(k) ==
    [calls   |-> fr[k].clientCalls,
     records |-> [j \in LogsBy(k) |-> logs[j].call],
     result  |-> <<fr[k].res, fr[k].readBody, fr[k].err>>]

\* the number of client calls made by the goroutines 1..n
RECURSIVE ClientCallsUpTo(_)
ClientCallsUpTo(n) == IF n = 0 THEN 0 ELSE fr[n].clientCalls + ClientCallsUpTo(n - 1)

\* what a caller can observe of a returned batch: the client calls made by
\* all goroutines, all Call records, the triple in slot 0
EffectsOfBatch ==
    [calls   |-> ClientCallsUpTo(MaxN),
     records |-> [j \in 1..Len(logs) |-> logs[j].call],
     result  |-> <<resps[0], readBodies[0], errs[0]>>]

\* the effects of transporting req with reqBody when the client answers
\* <<cres, cerr>> and the body read answers <<rbuf, rerr>>
TransportEffects(req, reqBody, cres, cerr, rbuf, rerr) ==
    LET body == IF cerr # nil THEN "" ELSE rbuf
        err  == IF cerr # nil THEN cerr ELSE rerr
    IN  [calls   |-> 1,
         records |-> IF logger = nil THEN <<>>
                     ELSE <<[OriginID |-> originID, CalleeID |-> calleeID,
                             Req |-> "&{GET " \o req.URL \o "}", ReqBody |-> reqBody,
                             Res |-> IF cres = nil THEN "<nil>"
                                     ELSE "&{" \o cres.Status \o "}",
                             ResBody |-> body,
                             Err |-> IF err = nil THEN "<nil>" ELSE err.msg]>>,
         result  |-> <<cres, body, err>>]

\* C14: every goroutine calls Do with the request and the body text of its
\* own work item and the records it emits carry the caller's originID and
\* calleeID; a returned direct call Do(r) and a returned batch DoBatch([r])
\* both show exactly the effects of one transport of r for the answers the
\* client gave: one client call, the same Call records, the same triple
\* (returned, resp. stored in slot 0).
C14_DispatcherKeepsTransport ==
    /\ \A u \in Units :
         fr[u].clientCalls > 0 =>
            /\ fr[u].req = reqs[fr[u].batchedReq.Sequence]
            /\ fr[u].reqBody = reqBodies[fr[u].batchedReq.Sequence]
            /\ \A j \in LogsBy(u) :
                 logs[j].call.OriginID = originID /\ logs[j].call.CalleeID = calleeID
    /\ (mode = "Do" /\ pc = "returned") =>
          EffectsOf(0) = TransportEffects(reqs[0], reqBodies[0],
                            fr[0].clientRes, fr[0].clientErr, fr[0].readBuf, fr[0].readErr)
    /\ (BatchReturned /\ LenOf(reqs) = 1) =>
          \E u \in Units :
             EffectsOfBatch = TransportEffects(reqs[0], reqBodies[0],
                            fr[u].clientRes, fr[u].clientErr, fr[u].readBuf, fr[u].readErr)

\* a batch of one request with a body text and a logger returned successfully
C14_Witness ==
    /\ BatchReturned
    /\ LenOf(reqs) = 1
    /\ logger # nil
    /\ reqBodies[0] # ""
    /\ errs[0] = nil
    /\ Len(logs) = 1


\* C15: a Do invocation calls the client at most once, and exactly once by
\* the time it returns, also when the call or the body read failed; a
\* returned batch of z requests has made exactly z client calls, one for each
\* input request.
C15_OneRoundTrip ==
    /\ \A k \in Frames :
         /\ fr[k].clientCalls <= 1
         /\ fr[k].returns = 1 => fr[k].clientCalls = 1
         /\ fr[k].pc \notin {"idle", "launched"} => fr[k].clientCalls = 1
    /\ (mode = "Do" /\ pc = "returned") => fr[0].clientCalls = 1
    /\ BatchReturned =>
         /\ ClientCallsUpTo(MaxN) = LenOf(reqs)
         /\ fr[0].clientCalls = 0
         /\ \A j \in DOMAIN reqs :
              /\ Cardinality(HoldersOf(j)) = 1
              /\ \A u \in HoldersOf(j) : fr[u].clientCalls = 1 /\ fr[u].req = reqs[j]

\* a batch of two returned after the client refused both connections
C15_Witness ==
    /\ BatchReturned
    /\ z = 2
    /\ errs[0] = ConnErr
    /\ errs[1] = ConnErr
    /\ ClientCallsUpTo(MaxN) = 2


\* C16: a returned Do invocation, and every slot of a returned batch, holds
\* either a nil error with a non-nil response and the fully drained body of
\* that response, or a non-nil error; never a nil error with a nil response.
C16_PerSlotOutcome ==
    /\ \A k \in Frames :
         fr[k].returns = 1 =>
            \/ fr[k].err # nil
            \/ /\ fr[k].res # nil
               /\ fr[k].res.kind = "response"
               /\ fr[k].readBody = fr[k].res.Body
    /\ BatchReturned =>
         \A j \in DOMAIN reqs :
            \/ errs[j] # nil
            \/ /\ resps[j] # nil
               /\ resps[j].kind = "response"
               /\ readBodies[j] = resps[j].Body

\* a batch of two returned with one slot of each kind: a response with its
\* body and no error, and an error with no response
C16_Witness ==
    /\ BatchReturned
    /\ z = 2
    /\ \E j, k \in DOMAIN reqs :
         /\ errs[j] = nil /\ resps[j] # nil /\ readBodies[j] # ""
         /\ errs[k] # nil /\ resps[k] = nil

\* the triple Do returns when the client answers as frame k's client did and
\* the body read as frame k's read did
TripleFromAnswers(k) ==
    IF fr[k].clientErr # nil
    THEN <<fr[k].clientRes, "", fr[k].clientErr>>
    ELSE <<fr[k].clientRes, fr[k].readBuf, fr[k].readErr>>

\* C17: from the moment Do hands the record to the logger until after it
\* has returned, its result triple is the one the client's and the body
\* read's answers determine, with a logger exactly as without one; the error
\* returned is the transport or body-read error (or nil), never another one.
C17_LoggingKeepsResult ==
    \A k \in Frames :
        /\ fr[k].pc = "inLogger" =>
             <<fr[k].res, fr[k].readBody, fr[k].err>> = TripleFromAnswers(k)
        /\ fr[k].returns = 1 =>
             /\ <<fr[k].res, fr[k].readBody, fr[k].err>> = TripleFromAnswers(k)
             /\ fr[k].err \in {nil, fr[k].clientErr, fr[k].readErr}
        /\ (fr[k].pc \in {"assigned", "exited"} /\ pc # "panicked") =>
             <<resps[Slot(fr[k])], readBodies[Slot(fr[k])], errs[Slot(fr[k])]>>
                = TripleFromAnswers(k)

\* a direct call with a logger returned the body-read error after logging it
C17_Witness ==
    /\ mode = "Do"
    /\ pc = "returned"
    /\ logger # nil
    /\ fr[0].logCalls = 1
    /\ fr[0].err = ReadErr
    /\ fr[0].readErr = ReadErr


\* the request and body text every invocation of Do works with, and every
\* work item queued, are the caller's reqs[k] and reqBodies[k]
RequestsAsPassed ==
    /\ \A k \in Frames :
         fr[k].clientCalls > 0 =>
            /\ ArgIndex(k) \in DOMAIN reqs
            /\ fr[k].req = reqs[ArgIndex(k)]
            /\ fr[k].reqBody = reqBodies[ArgIndex(k)]
    /\ \A j \in 1..Len(batchedRequests.buf) :
         LET item == batchedRequests.buf[j] IN
            /\ item.Request = reqs[item.Sequence]
            /\ item.ReqBody = reqBodies[item.Sequence]

\* C18: no step of Do or DoBatch changes the caller's reqs and reqBodies,
\* and the request a Do invocation holds (method, address, headers, body
\* reference) stays the request the caller passed for that index.
C18_RequestsReadOnly ==
    /\ [][reqs' = reqs /\ reqBodies' = reqBodies]_vars
    /\ []RequestsAsPassed

\* a batch of two returned after both requests were sent and answered
C18_Witness ==
    /\ BatchReturned
    /\ z = 2
    /\ \A u \in Units : fr[u].clientCalls = 1 /\ fr[u].req = reqs[ArgIndex(u)]


\* the goroutines started so far
Started == {u \in Units : fr[u].pc # "idle"}

\* C19: DoBatch starts exactly one goroutine per request (i of them after i
\* iterations of the launch loop, len(reqs) once the loop is over, none
\* before and none beyond); every goroutine that received took exactly one
\* item, a real one (the item built for its index, never the zero value of
\* the closed channel), and no item is taken by two goroutines; when DoBatch
\* returns every item has been taken by exactly one goroutine.
C19_UnitsAndItems ==
    mode = "DoBatch" =>
        /\ Started \subseteq 1..LenOf(reqs)
        /\ pc \in {"start", "fill", "close", "add"} => Started = {}
        /\ pc = "launch" => Started = 1..i
        /\ pc \in {"wait", "returned"} => Started = 1..LenOf(reqs)
        /\ \A u \in Units :
             fr[u].clientCalls > 0 =>
                /\ fr[u].clientCalls = 1
                /\ fr[u].batchedReq # ZeroBatchedRequest
                /\ fr[u].batchedReq.Request # nil
                /\ fr[u].batchedReq.Sequence \in DOMAIN reqs
                /\ fr[u].batchedReq = WorkItem(fr[u].batchedReq.Sequence)
        /\ \A k \in DOMAIN reqs : Cardinality(HoldersOf(k)) <= 1
        /\ pc \in {"wait", "returned"} =>
             Cardinality(Started) = LenOf(reqs)
        /\ BatchReturned =>
             /\ \A k \in DOMAIN reqs : Cardinality(HoldersOf(k)) = 1
             /\ batchedRequests.buf = <<>>

\* no pool and no bound: all the goroutines of a batch of two are inside
\* their client call at the same time, each with its own item
C19_Witness ==
    /\ mode = "DoBatch"
    /\ z = 2
    /\ \A u \in Units : fr[u].pc = "client"
    /\ {fr[u].batchedReq.Sequence : u \in Units} = DOMAIN reqs


\* the send of the fill loop's current iteration finds room in the channel
FillHasRoom ==
    (pc = "fill" /\ i < z /\ i \in DOMAIN reqBodies) =>
        Len(batchedRequests.buf) < batchedRequests.cap

\* C20 as stated: every DoBatch invocation eventually returns.
C20_Original ==
    (mode = "DoBatch") ~> BatchReturned

\* C20: under fair scheduling, with every client call, body read and logger
\* call returning, a DoBatch invocation given at least as many bodies as
\* requests eventually returns, and one given fewer bodies ends in the
\* index-out-of-range panic of the fill loop instead of returning; a send of
\* the fill loop never finds the channel full.
C20_Liveness ==
    /\ (mode = "DoBatch" /\ LenOf(reqBodies) >= LenOf(reqs)) ~> BatchReturned
    /\ (mode = "DoBatch" /\ LenOf(reqBodies) < LenOf(reqs)) ~> (pc = "panicked")
    /\ [](pc = "panicked" => [](pc = "panicked"))
    /\ []FillHasRoom

\* a batch of two returned after the fill loop queued both items, every
\* goroutine having run to its end
C20_Witness ==
    /\ BatchReturned
    /\ z = 2
    /\ i = 2
    /\ batchedRequests.cap = 2
    /\ \A u \in Units : fr[u].pc = "exited"
    /\ hist.released = 1


----------------------------------------------------------------------------
(* Properties of the build calls, checked under ApiSpec *)

\* the fields a template source refers to
FieldsOf(tree) == {tree[j].v : j \in {n \in 1..Len(tree) : tree[n].k = "field"}}

\* the last call was BuildBody, and it failed with the given message
BuildBodyFailed(format) ==
    /\ built.op = "BuildBody"
    /\ built.err # nil
    /\ built.err.msg = format

\* C21: BuildBody fails with 'template not found' for a name the registry
\* does not hold; with 'error initialising template', carrying the stored
\* compile error, for a registered template whose compilation failed (the
\* registry holds the failure and package initialisation went on to register
\* the other templates); with 'error executing template' when the data lacks
\* a field the template uses; and every failure comes with the empty text and
\* a nil reader.
C21_ErrorTaxonomy ==
    built.op = "BuildBody" =>
        LET name == built.templateName IN
        /\ name \notin DOMAIN RequestTemplates =>
             built.err = Errorf("template %s not found", <<name>>)
        /\ (name \in DOMAIN RequestTemplates /\ RequestTemplates[name].err # nil) =>
             /\ RequestTemplates[name].err = ParseErr
             /\ built.err = Errorf("error initialising template %s, %v", <<name, ParseErr>>)
        /\ (name \in DOMAIN RequestTemplates /\ RequestTemplates[name].err = nil) =>
             /\ RequestTemplates[name].t # nil
             /\ ~(FieldsOf(RequestTemplates[name].t.tree) \subseteq DOMAIN built.data) =>
                  /\ BuildBodyFailed("error executing template %s, %v")
                  /\ built.err.args[1] = name
             /\ (FieldsOf(RequestTemplates[name].t.tree) \subseteq DOMAIN built.data) =>
                  ~BuildBodyFailed("error executing template %s, %v")
        /\ built.err # nil => (built.text = <<>> /\ built.reader = nil)

\* Validate did not compile; the registry holds that, the call for it fails
\* at build time, and the other two templates are registered and compiled
C21_Witness ==
    /\ BuildBodyFailed("error initialising template %s, %v")
    /\ built.templateName = "Validate"
    /\ RequestTemplates["Validate"].t = nil
    /\ RequestTemplates["AccountRegistration"].t # nil
    /\ RequestTemplates["RegisterFundraisingPageForEvent"].err = nil

\* text without its blanks
NoBlanks(text) == SelectSeq(text, LAMBDA c : c # " ")

\* the text the template of the last BuildBody call renders for its data
Rendered == Execute(RequestTemplates[built.templateName].t, built.data)[1]

\* the last call was BuildBody for a compiled template and data with every
\* field the template uses
BuildBodyRendered ==
    /\ built.op = "BuildBody"
    /\ built.templateName \in DOMAIN RequestTemplates
    /\ RequestTemplates[built.templateName].err = nil
    /\ FieldsOf(RequestTemplates[built.templateName].t.tree) \subseteq DOMAIN built.data

\* C22: the rendered text is compacted only for the content type
\* "application/json" (blanks outside strings removed, nothing else changed);
\* for another content type it is returned as rendered; a failed compaction
\* gives an error with the template name and the raw rendered text, the
\* empty text and a nil reader; on success text and reader hold the same.
C22_Compaction ==
    /\ BuildBodyRendered =>
         IF built.contentType = "application/json"
         THEN \/ /\ built.err = nil
                 /\ built.text = Compact(Rendered)[1]
                 /\ NoBlanks(built.text) = NoBlanks(Rendered)
                 /\ Len(built.text) < Len(Rendered)
              \/ /\ BuildBodyFailed("error in json request body generated from template %s, %s, %v")
                 /\ built.err.args[1] = built.templateName
                 /\ built.err.args[2] = Rendered
                 /\ Compact(Rendered)[2] # nil
                 /\ built.text = <<>>
                 /\ built.reader = nil
         ELSE /\ built.err = nil
              /\ built.text = Rendered
    /\ (built.op = "BuildBody" /\ built.err = nil) =>
         /\ built.reader # nil
         /\ built.reader.content = built.text

\* a value with a double quote in it made the rendered text malformed JSON:
\* the compaction failed and the error carries the raw text
C22_Witness ==
    /\ BuildBodyRendered
    /\ built.data = QuoteData
    /\ BuildBodyFailed("error in json request body generated from template %s, %s, %v")
    /\ built.err.args[2] = Rendered

\* C23: the registry holds exactly Validate, AccountRegistration and
\* RegisterFundraisingPageForEvent, and no step of BuildBody, BuildRequest,
\* Do or DoBatch changes it.
C23_RegistryImmutable ==
    /\ [](DOMAIN RequestTemplates =
            {"Validate", "AccountRegistration", "RegisterFundraisingPageForEvent"})
    /\ [][RequestTemplates' = RequestTemplates]_vars

\* a name the registry does not hold was looked up and a batch was
\* transported; the registry is the one package initialisation left
C23_Witness ==
    /\ BuildBodyFailed("template %s not found")
    /\ BatchReturned
    /\ z = 1
    /\ RequestTemplates = init(Sources)

\* C24: BuildRequest fails exactly when the method or the address is one
\* http.NewRequest rejects, and then returns a nil request with the error; a
\* request it returns carries the given User-Agent and Content-Type; a
\* BuildRequest step changes nothing but the caller's result: no registry
\* change, no client call, no log record.
C24_BuildRequest ==
    /\ [](built.op = "BuildRequest" =>
            /\ (built.err # nil) <=>
                  \/ (IF built.method = "" THEN "GET" ELSE built.method) \in InvalidMethods
                  \/ \E j \in 1..Len(built.reqPath) : built.reqPath[j] = "%zz"
            /\ built.err # nil => built.req = nil
            /\ built.err = nil =>
                  /\ built.req # nil
                  /\ built.req.Header["User-Agent"] = <<built.userAgent>>
                  /\ built.req.Header["Content-Type"] = <<built.contentType>>
                  /\ built.req.Body = built.reqBody)
    /\ [][(built' # built /\ built'.op = "BuildRequest") =>
            UNCHANGED <<RequestTemplates, transport>>]_vars

\* a request was built with an empty method and a content type other than
\* the JSON one
C24_Witness ==
    /\ built.op = "BuildRequest"
    /\ built.err = nil
    /\ built.method = ""
    /\ built.req.Method = "GET"
    /\ built.contentType = "application/json; charset=utf-8"


----------------------------------------------------------------------------
(* Properties of the Service methods, checked under ServiceSpec *)

\* the status a registration answers with when it succeeded
ExpectedStatus ==
    [AccountRegistration |-> 200, RegisterFundraisingPageForEvent |-> 201]

\* the validation call each registration method makes
ValidationCallee ==
    [AccountRegistration |-> "IsValidCountry",
     RegisterFundraisingPageForEvent |-> "IsValidCurrencyCode"]

\* the registration call was answered, with a status other than the expected
PrimaryRefused ==
    /\ svc.op \in DOMAIN ExpectedStatus
    /\ Len(svc.calls) >= 1
    /\ svc.calls[1].calleeID = svc.op
    /\ svc.calls[1].err = nil
    /\ svc.calls[1].res.StatusCode # ExpectedStatus[svc.op]

\* C25: a countries or currencies lookup is the second call of its
\* registration method, made after the registration call returned without
\* error and with a status other than 200 (resp. 201); it is never the first
\* call, and never follows a successful or a failed-in-transport registration.
C25_ValidationAfterFailure ==
    /\ \A j \in 1..Len(svc.calls) :
         svc.calls[j].calleeID \in {"IsValidCountry", "IsValidCurrencyCode"} =>
            /\ j = 2
            /\ PrimaryRefused
            /\ svc.calls[j].calleeID = ValidationCallee[svc.op]
    /\ svc.pc = "validation" => (PrimaryRefused /\ Len(svc.calls) = 1)
    /\ (svc.pc = "returned" /\ svc.op \in DOMAIN ExpectedStatus /\ Len(svc.calls) = 1) =>
         \/ svc.calls[1].err # nil
         \/ svc.calls[1].res.StatusCode = ExpectedStatus[svc.op]

\* a page registration answered 400 was followed by the currencies lookup
C25_Witness ==
    /\ svc.op = "RegisterFundraisingPageForEvent"
    /\ svc.pc = "returned"
    /\ Len(svc.calls) = 2
    /\ svc.calls[1].res.StatusCode = 400
    /\ svc.calls[2].calleeID = "IsValidCurrencyCode"

\* the countries lookup of an AccountRegistration ran to an answer: the call
\* returned no error, status 200 and a body that is a JSON list
CountryLookupAnswered ==
    /\ Len(svc.calls) = 2
    /\ svc.calls[2].err = nil
    /\ svc.calls[2].res.StatusCode = 200
    /\ svc.calls[2].resBody.kind = "json"

\* the country of the account is in the list the lookup returned
CountryListed ==
    \E j \in 1..Len(svc.calls[2].resBody.value) :
        svc.calls[2].resBody.value[j].name = svc.account.Country

\* C26: AccountRegistration returns nil only when the registration call
\* returned status 200; for any other status it returns an error made of the
\* response status and one validation result: 'invalid Country' when the
\* lookup answered and does not list the country, 'errors running
\* validation' when the lookup failed, 'no errors found' otherwise.
C26_RegistrationError ==
    (svc.op = "AccountRegistration" /\ svc.pc = "returned") =>
        /\ svc.ret[1] = nil =>
             /\ Len(svc.calls) = 1
             /\ svc.calls[1].err = nil
             /\ svc.calls[1].res.StatusCode = 200
        /\ PrimaryRefused =>
             /\ svc.ret[1] # nil
             /\ svc.ret[1].msg =
                  "invalid response %s, result of running validation on request payload was: %s"
             /\ svc.ret[1].args[1] = svc.calls[1].res.Status
             /\ IF CountryLookupAnswered
                THEN IF CountryListed
                     THEN svc.ret[1].args[2] = Text("no errors found", <<>>)
                     ELSE svc.ret[1].args[2] = Text("invalid Country", <<>>)
                ELSE svc.ret[1].args[2].format = "errors running validation %v"

\* the case of the test: status 400 for an account with country Nowhere,
\* and the countries lookup does not list it
C26_Witness ==
    /\ svc.op = "AccountRegistration"
    /\ svc.pc = "returned"
    /\ PrimaryRefused
    /\ svc.calls[1].res.Status = "400 Bad request"
    /\ svc.account.Country = <<"Nowhere">>
    /\ CountryLookupAnswered
    /\ svc.ret[1].args[2] = Text("invalid Country", <<>>)

\* C27: AccountAvailabilityCheck answers true only for a response with the
\* operation header AccountApi:AccountAvailabilityCheck and status 404;
\* with the header and status 200 it answers false without error; without
\* the header, or with another one, it returns an error whatever the status;
\* with the header and any other status it returns an error.
C27_AvailabilityGuard ==
    (svc.op = "AccountAvailabilityCheck" /\ svc.pc = "returned" /\ Len(svc.calls) = 1) =>
        LET c == svc.calls[1] IN
        /\ svc.ret[1] =>
             /\ c.err = nil
             /\ c.res.Operation = AccountOperation
             /\ c.res.StatusCode = 404
             /\ svc.ret[2] = nil
        /\ (c.err = nil /\ c.res.Operation = AccountOperation /\ c.res.StatusCode = 404) =>
             svc.ret = <<TRUE, nil>>
        /\ (c.err = nil /\ c.res.Operation = AccountOperation /\ c.res.StatusCode = 200) =>
             svc.ret = <<FALSE, nil>>
        /\ (c.err = nil /\ c.res.Operation # AccountOperation) =>
             (~svc.ret[1] /\ svc.ret[2] # nil)
        /\ (c.err = nil /\ c.res.Operation = AccountOperation /\ c.res.StatusCode \notin {200, 404}) =>
             (~svc.ret[1] /\ svc.ret[2] # nil)

\* a 404 without the operation header was answered with an error
C27_Witness ==
    /\ svc.op = "AccountAvailabilityCheck"
    /\ svc.pc = "returned"
    /\ Len(svc.calls) = 1
    /\ svc.calls[1].err = nil
    /\ svc.calls[1].res.StatusCode = 404
    /\ svc.calls[1].res.Operation = ""
    /\ ~svc.ret[1]
    /\ svc.ret[2] # nil

\* C28: FundraisingPageURLCheck makes the suggestions call only after the
\* availability call returned the operation header and status 200; for the
\* header with status 404 it returns true, no suggestions and no error after
\* one call; for a taken page it returns false with the names of the
\* suggestions body; an error of either call is returned with false.
C28_PageURLCheck ==
    svc.op = "FundraisingPageURLCheck" =>
        /\ Len(svc.calls) <= 2
        /\ (Len(svc.calls) = 2 \/ svc.pc = "suggestions") =>
             /\ svc.calls[1].err = nil
             /\ svc.calls[1].res.Operation = PageOperation
             /\ svc.calls[1].res.StatusCode = 200
        /\ (svc.pc = "returned" /\ Len(svc.calls) >= 1) =>
             LET first == svc.calls[1]
                 last  == svc.calls[Len(svc.calls)]
             IN
             /\ (first.err = nil /\ first.res.Operation = PageOperation
                    /\ first.res.StatusCode = 404) =>
                  (svc.ret = <<TRUE, nil, nil>> /\ Len(svc.calls) = 1)
             /\ (first.err = nil /\ first.res.Operation = PageOperation
                    /\ first.res.StatusCode = 200) =>
                  (Len(svc.calls) = 2 /\ ~svc.ret[1])
             /\ (Len(svc.calls) = 2 /\ last.err = nil /\ last.resBody.kind = "json") =>
                  svc.ret = <<FALSE, last.resBody.value.Names, nil>>
             /\ last.err # nil => svc.ret = <<FALSE, nil, last.err>>

\* the page name is taken and the names of the suggestions call are returned
C28_Witness ==
    /\ svc.op = "FundraisingPageURLCheck"
    /\ svc.pc = "returned"
    /\ Len(svc.calls) = 2
    /\ svc.calls[2].err = nil
    /\ svc.calls[2].resBody = SuggestionsBody
    /\ svc.ret = <<FALSE, <<"run1", "run2">>, nil>>


----------------------------------------------------------------------------
(* Properties of DoBatch, continued (Spec) *)

\* goroutine u is inside its client call
InClient(u) == fr[u].pc = "client"

\* C29: while the client call of one goroutine has not returned DoBatch has
\* not returned and wg.Wait is not released, whatever the other goroutines
\* have done; so if that call never returns, DoBatch never returns; and a
\* goroutine leaves its client call only by the call returning one of the
\* client's answers for its request, never because of another goroutine.
C29_NoBatchTimeout ==
    /\ [](mode = "DoBatch" =>
            \A u \in Units : InClient(u) => (pc # "returned" /\ ~ENABLED Wait))
    /\ \A u \in Units :
         <>[](mode = "DoBatch" /\ InClient(u)) => [](pc # "returned")
    /\ [][\A u \in Units :
            (InClient(u) /\ ~InClient(u)') =>
               /\ <<fr'[u].clientRes, fr'[u].clientErr>> \in ClientOutcomes(fr[u].req)
               /\ \A v \in Units \ {u} : fr'[v] = fr[v]]_vars

\* one goroutine is still inside its client call after the other has
\* written its slot and exited, its call having failed; the caller waits
C29_Witness ==
    /\ mode = "DoBatch"
    /\ z = 2
    /\ pc = "wait"
    /\ \E u, v \in Units :
         /\ InClient(u)
         /\ fr[v].pc = "exited"
         /\ fr[v].err # nil
         /\ hist.writers[fr[v].batchedReq.Sequence] = <<v>>

\* the Call record goroutine u emitted
RecordOf(u) == logs[CHOOSE j \in LogsBy(u) : TRUE].call

\* C30: logging is not serialised: a goroutine whose client call or body
\* read is due to return can take that step, and enter the logger, while
\* another goroutine is inside the logger, so records can be emitted in any
\* order; and whatever the order of the records, slot k of a returned batch
\* holds what the record of the goroutine that took item k reports.
C30_LoggingNotSerialized ==
    /\ \A u \in Units :
         /\ (Running /\ fr[u].pc = "client") => ENABLED ClientReturn(u)
         /\ (Running /\ fr[u].pc = "read") => ENABLED ReadReturn(u)
         /\ (Running /\ fr[u].pc = "inLogger") => ENABLED LogReturn(u)
    /\ (BatchReturned /\ logger # nil) =>
         \A k \in DOMAIN reqs : \A u \in HoldersOf(k) :
            /\ Cardinality(LogsBy(u)) = 1
            /\ RecordOf(u).Res = Sprintf(resps[k])
            /\ RecordOf(u).ResBody = readBodies[k]
            /\ RecordOf(u).Err = Sprintf(errs[k])

\* two goroutines are inside the logger at the same time, and the record for
\* item 1 was emitted before the record for item 0
C30_Witness ==
    /\ mode = "DoBatch"
    /\ z = 2
    /\ \A u \in Units : fr[u].pc = "inLogger"
    /\ Len(logs) = 2
    /\ fr[logs[1].by].batchedReq.Sequence = 1
    /\ fr[logs[2].by].batchedReq.Sequence = 0


\* goroutine or direct call k has come back from Do
BackFromDo(k) == fr[k].pc \in {"returned", "assigned", "exited"}

\* C32: with a logger, a Do invocation that has returned has emitted its
\* Call record and is no longer inside the logger; so a slot is written only
\* after the record of its item was emitted, a returned batch has emitted one
\* record per item with no goroutine left inside the logger, and a returned
\* direct call has emitted its record.
C32_LogBeforeResult ==
    logger # nil =>
        /\ \A k \in Frames : BackFromDo(k) => Cardinality(LogsBy(k)) = 1
        /\ \A j \in DOMAIN hist.writers :
             hist.writers[j] # <<>> =>
                \E u \in HoldersOf(j) :
                    /\ hist.writers[j] = <<u>>
                    /\ Cardinality(LogsBy(u)) = 1
                    /\ fr[u].pc # "inLogger"
        /\ BatchReturned =>
             /\ Len(logs) = LenOf(reqs)
             /\ \A u \in Units : fr[u].pc # "inLogger"
        /\ (mode = "Do" /\ fr[0].returns = 1) => Len(logs) = 1

\* slot 1 of a logged batch of two is written, its record emitted, while the
\* goroutine of item 0 is still inside its client call and has no record yet
C32_Witness ==
    /\ mode = "DoBatch"
    /\ logger # nil
    /\ z = 2
    /\ DOMAIN hist.writers = {0, 1}
    /\ hist.writers[1] # <<>>
    /\ hist.writers[0] = <<>>
    /\ Len(logs) = 1
    /\ \E u \in Units : fr[u].pc = "client" /\ fr[u].batchedReq.Sequence = 0

\* C33: every Call record of a batch carries the OriginID and the CalleeID
\* passed to DoBatch, and the record emitted for item k carries the text of
\* reqs[k] as Req and reqBodies[k] as ReqBody.
C33_LogCorrelation ==
    mode = "DoBatch" =>
        \A j \in 1..Len(logs) :
            LET k == fr[logs[j].by].batchedReq.Sequence IN
            /\ logs[j].by \in Units
            /\ k \in DOMAIN reqs
            /\ logs[j].call.OriginID = originID
            /\ logs[j].call.CalleeID = calleeID
            /\ logs[j].call.Req = Sprintf(reqs[k])
            /\ logs[j].call.ReqBody = reqBodies[k]

\* a returned batch of two requests with different body texts: two records,
\* same identifiers, each with the body text of its own item
C33_Witness ==
    /\ BatchReturned
    /\ z = 2
    /\ Len(logs) = 2
    /\ reqBodies[0] # reqBodies[1]
    /\ logs[1].call.ReqBody # logs[2].call.ReqBody
    /\ logs[1].call.OriginID = logs[2].call.OriginID
    /\ logs[1].call.CalleeID = logs[2].call.CalleeID

\* C34: the size of a batch is len(reqs).  With fewer body texts than
\* requests DoBatch gets no further than the fill loop, where it panics at
\* the first index without a body text, before any goroutine is started, any
\* client call made or any record emitted.  With more body texts than
\* requests the extra ones are never read: the batch has len(reqs) items and
\* results, and item k carries reqBodies[k].
C34_SizeFromReqs ==
    mode = "DoBatch" =>
        /\ pc # "start" => z = LenOf(reqs)
        /\ LenOf(reqBodies) < LenOf(reqs) =>
             /\ pc \in {"start", "fill", "panicked"}
             /\ Started = {}
             /\ \A k \in Frames : fr[k].clientCalls = 0
             /\ logs = <<>>
             /\ wg.counter = 0
             /\ pc = "panicked" =>
                  /\ i = LenOf(reqBodies)
                  /\ Len(batchedRequests.buf) = LenOf(reqBodies)
             /\ (pc = "fill" /\ i = LenOf(reqBodies)) => ~ENABLED Close
        /\ LenOf(reqBodies) > LenOf(reqs) =>
             /\ pc # "panicked"
             /\ \A j \in 1..Len(batchedRequests.buf) :
                  batchedRequests.buf[j].Sequence \in DOMAIN reqs
             /\ \A u \in Units :
                  fr[u].clientCalls > 0 =>
                     /\ fr[u].batchedReq.Sequence \in DOMAIN reqs
                     /\ fr[u].reqBody = reqBodies[fr[u].batchedReq.Sequence]
             /\ BatchReturned =>
                  /\ DOMAIN resps = DOMAIN reqs
                  /\ DOMAIN readBodies = DOMAIN reqs
                  /\ DOMAIN errs = DOMAIN reqs

\* two requests with one body text: the first item is queued, the second
\* panics
C34_Witness ==
    /\ mode = "DoBatch"
    /\ pc = "panicked"
    /\ LenOf(reqs) = 2
    /\ LenOf(reqBodies) = 1
    /\ i = 1
    /\ Len(batchedRequests.buf) = 1


\* C37: when CreateWithAPIKey has returned it has made exactly one probe,
\* AccountAvailabilityCheck; it returns a Service and no error if and only
\* if the probe returned no error, and no Service and an error otherwise;
\* whether the probe found the account available or registered makes no
\* difference to what is returned
C37_ProbeDecides ==
    (svc.op = "CreateWithAPIKey" /\ svc.pc = "returned") =>
        /\ Len(svc.probes) = 1
        /\ (svc.ret[1] # nil /\ svc.ret[2] = nil) <=> (svc.probes[1][2] = nil)
        /\ (svc.ret[1] = nil /\ svc.ret[2] # nil) <=> (svc.probes[1][2] # nil)
        /\ svc.ret[1] # nil => svc.ret[1].kind = "Service"

\* a Service was returned although the probe said the account is available
C37_Witness ==
    /\ svc.op = "CreateWithAPIKey"
    /\ svc.pc = "returned"
    /\ svc.probes = <<(<<TRUE, nil>>)>>
    /\ svc.ret[1] # nil
    /\ svc.ret[2] = nil


\* the latest page request failed: api.Do returned an error, or a status
\* other than 200, or a body that is not the expected document
PageFailed ==
    \/ svc.walk.last[3] # nil
    \/ svc.walk.last[1].StatusCode # 200
    \/ svc.walk.last[2].kind # "json"

PagesAsked(n) == [j \in 1..n |-> <<"1", "2", "3", "4", "5", "6", "7", "8", "9">>[j]]

\* the entries of the latest response that have a page id
LastCollected ==
    SelectSeq(svc.walk.last[2].value.fundraisingPages, LAMBDA p : p.pageId # 0)

LargestReported ==
    CHOOSE m \in svc.walk.reported \cup {1} : \A r \in svc.walk.reported \cup {1} : r <= m

DateForm == date.arg.prefix = DatePrefix /\ date.arg.rest # <<>> /\ Head(date.arg.rest) = "+"

\* the millisecond part is a decimal integer: digits, after a minus sign or
\* not
MsDecimal ==
    LET m == date.arg.ms
        d == IF m # <<>> /\ Head(m) = "-" THEN Tail(m) ELSE m
    IN d # <<>> /\ \A j \in 1..Len(d) : d[j] \in DigitChars

MsNegative == Head(date.arg.ms) = "-" /\ \E j \in 2..Len(date.arg.ms) : date.arg.ms[j] # "0"

\* the number a sequence of at most nine digits stands for
RECURSIVE NumberOf(_)
NumberOf(digits) ==
    IF digits = <<>> THEN 0
    ELSE 10 * NumberOf(SubSeq(digits, 1, Len(digits) - 1)) + DigitValue(digits[Len(digits)])

\* the millisecond part, not negative, is at least 1000
MsAtLeast1000 ==
    /\ ~MsNegative
    /\ Head(date.arg.ms) # "-"
    /\ \E j \in 1..(Len(date.arg.ms) - 3) : date.arg.ms[j] # "0"

\* the millisecond part is a 64-bit value
MsInt64 ==
    LET m == date.arg.ms IN
    IF Head(m) = "-"
    THEN Within(Canonical(Tail(m)), MinInt64)
    ELSE Within(Canonical(m), MaxInt64)

\* ParseDate returned the time at Unix second floor(ms / 1000), no error
ReturnedFloor ==
    LET d == Canonical(date.arg.ms)
        q == date.ret[1].sec.digits
    IN
    /\ date.ret[2] = nil
    /\ ~date.ret[1].zero
    /\ ~date.ret[1].sec.neg
    /\ IF Len(d) <= 9
       THEN NumberOf(q) = NumberOf(d) \div 1000
       ELSE q \o SubSeq(d, Len(d) - 2, Len(d)) = d

ReturnedError == date.ret[2] # nil /\ date.ret[1] = ZeroTime

\* the cases in which ParseDate is said to fail
DateRefused ==
    LET text == TextOf(date.arg) IN
    \/ text = <<>>
    \/ \A j \in 1..Len(text) : text[j] # "+"
    \/ \E j \in 1..Len(text) : j <= 4 /\ text[j] = "+"
    \/ /\ DateForm
       /\ \/ Len(date.arg.ms) < 4
          \/ ~MsDecimal
          \/ MsNegative
          \/ ~MsNegative /\ MsDecimal /\ ~MsAtLeast1000

\* C38 as stated: every /Date(<ms>+<offset>)/ whose <ms> is a decimal
\* integer of at least 4 characters and of value >= 1000 gives the time at
\* Unix second floor(ms / 1000) and no error
C38_Original ==
    date.pc = "returned" =>
        /\ (DateForm /\ MsDecimal /\ Len(date.arg.ms) >= 4 /\ MsAtLeast1000) => ReturnedFloor
        /\ DateRefused => ReturnedError

\* C38: for /Date(<ms>+<offset>)/ where <ms> is a decimal integer of at
\* least 4 characters, of value >= 1000 and not above the largest 64-bit
\* value, ParseDate returns the time at Unix second floor(ms / 1000) and no
\* error; it returns an error and the zero time for the empty string, for
\* an argument with no '+' or with fewer than 4 characters before it, for a
\* millisecond part that is not an integer, and for one below 1000
C38_ParseDate ==
    date.pc = "returned" =>
        /\ (DateForm /\ MsDecimal /\ Len(date.arg.ms) >= 4 /\ MsAtLeast1000 /\ MsInt64)
              => ReturnedFloor
        /\ DateRefused => ReturnedError
        /\ (DateForm /\ MsDecimal /\ ~MsInt64) => ReturnedError

\* /Date(1474675200000+0000)/ gave the second 1474675200
C38_Witness ==
    /\ date.pc = "returned"
    /\ DateForm
    /\ date.arg.ms = <<"1","4","7","4","6","7","5","2","0","0","0","0","0">>
    /\ date.ret[1] = Unix(Int64(FALSE, <<"1","4","7","4","6","7","5","2","0","0">>))
    /\ date.ret[2] = nil


\* the objects invocation c holds in its locals
ObjectsOf(c) ==
    { pair.inv[c].resps, pair.inv[c].readBodies, pair.inv[c].errs,
      pair.inv[c].batchedRequests, pair.inv[c].wg } \ {NoObject}

====
